---- MODULE Spec2Model ----
(***************************************************************************)
(* A model of the account-cloning core of xseries_demo:                    *)
(*   - CloneLogger (src/xseries_demo/output.py), the incremental log that  *)
(*     is rewritten to disk after every operation;                         *)
(*   - the record transformers of src/xseries_demo/clone.py.               *)
(*                                                                         *)
(* Python values are encoded as tagged records so that None, "", 0, {} and *)
(* [] stay distinct and Python truthiness can be computed:                 *)
(*   None  [t |-> "None"]           str   [t |-> "str",  s |-> "abc"]      *)
(*   int   [t |-> "int", n |-> 3]   bool  [t |-> "bool", b |-> TRUE]       *)
(*   dict  [t |-> "dict", d |-> f]  list  [t |-> "list", l |-> <<...>>]    *)
(* where f is a function from the dict's keys (strings) to encoded values. *)
(***************************************************************************)
EXTENDS Integers, Sequences, FiniteSets, TLC

VARIABLES
    data,       \* CloneLogger._data, the in-memory log document
    file,       \* the content of CloneLogger.filepath on disk
    lpc,        \* position of the logger: idle, inside _write, or killed
    clock,      \* number of datetime.now() readings so far
    ncalls,     \* number of logger calls started so far
    last,       \* the last logger call: name, entity type, outcome, result
    calls,      \* history: log calls made per entity type and status
    returned,   \* history: operation entries appended by calls that returned
    args,       \* the arguments of the transformer call under study
    result,     \* what the transformer call returned
    fpc,        \* position of the transformer call: ready, done
    flags,      \* run_clone: the stage flags and the destination's tax mode
    source_client,  \* the records of the source account
    dest_client,    \* the records of the destination account
    rpc,        \* run_clone: the stage the run is in
    idx,        \* the record of the stage that is processed next
    dest_names, \* clone_brands / clone_suppliers: the names found at the destination
    run_brand_mapping,     \* run_clone: brand_mapping
    run_supplier_mapping,  \* run_clone: supplier_mapping
    stage_maps, \* the identity maps of clone_products (outlets) and of clone_sales
    inventory_counts,  \* clone_products: inventory_updated and inventory_failed
    trace       \* history: the calls made on the destination and on the logger

loggerVars == <<data, file, lpc, clock, ncalls, last, calls, returned>>

transformVars == <<args, result, fpc>>

runVars ==
    <<flags, source_client, dest_client, rpc, idx, dest_names, run_brand_mapping, run_supplier_mapping,
      stage_maps,
      inventory_counts, trace>>

vars == <<loggerVars, transformVars, runVars>>

----------------------------------------------------------------------------
(* Encoded Python values *)

None == [t |-> "None"]

Str(s) == [t |-> "str", s |-> s]

Int_(n) == [t |-> "int", n |-> n]

Bool(b) == [t |-> "bool", b |-> b]

Dict(f) == [t |-> "dict", d |-> f]

List(q) == [t |-> "list", l |-> q]

EmptyDict == Dict([k \in {} |-> None])

EmptyList == List(<<>>)

(* bool(x) as Python computes it *)
Truthy(x) ==
    CASE x.t = "None" -> FALSE
      [] x.t = "str"  -> x.s # ""
      [] x.t = "int"  -> x.n # 0
      [] x.t = "bool" -> x.b
      [] x.t = "dict" -> DOMAIN x.d # {}
      [] x.t = "list" -> x.l # <<>>

(* k in x, x a dict *)
Has(x, k) == k \in DOMAIN x.d

(* x[k], x a dict that has k *)
Get(x, k) == x.d[k]

(* x.get(k, dflt) *)
GetOr(x, k, dflt) == IF k \in DOMAIN x.d THEN x.d[k] ELSE dflt

(* x[k] = v *)
Put(x, k, v) == Dict([j \in DOMAIN x.d \cup {k} |-> IF j = k THEN v ELSE x.d[j]])

(* del x[k] *)
Del(x, k) == Dict([j \in DOMAIN x.d \ {k} |-> x.d[j]])

(* x.update(y) *)
Update(x, y) ==
    Dict([j \in DOMAIN x.d \cup DOMAIN y.d |-> IF j \in DOMAIN y.d THEN y.d[j] ELSE x.d[j]])

(* x.append(v), x a list *)
Push(x, v) == List(Append(x.l, v))

(* a dict literal given as a TLA+ record *)
Rec(r) == Dict(r)

----------------------------------------------------------------------------
(* json.dump / json.load: the document on disk is JSON text, represented  *)
(* by its parse tree.                                                      *)

RECURSIVE JsonDump(_)
JsonDump(x) ==
    CASE x.t = "None" -> [j |-> "null"]
      [] x.t = "str"  -> [j |-> "string", js |-> x.s]
      [] x.t = "int"  -> [j |-> "number", jn |-> x.n]
      [] x.t = "bool" -> [j |-> IF x.b THEN "true" ELSE "false"]
      [] x.t = "dict" -> [j |-> "object", jo |-> [k \in DOMAIN x.d |-> JsonDump(x.d[k])]]
      [] x.t = "list" -> [j |-> "array",  ja |-> [i \in DOMAIN x.l |-> JsonDump(x.l[i])]]

RECURSIVE JsonLoad(_)
JsonLoad(y) ==
    CASE y.j = "null"   -> None
      [] y.j = "string" -> Str(y.js)
      [] y.j = "number" -> Int_(y.jn)
      [] y.j = "true"   -> Bool(TRUE)
      [] y.j = "false"  -> Bool(FALSE)
      [] y.j = "object" -> Dict([k \in DOMAIN y.jo |-> JsonLoad(y.jo[k])])
      [] y.j = "array"  -> List([i \in DOMAIN y.ja |-> JsonLoad(y.ja[i])])

----------------------------------------------------------------------------
(* CloneLogger: the document and its operations as functions of _data *)

(* datetime.now(timezone.utc).isoformat() at the c-th reading of the clock *)
Timestamp(c) == Str("T" \o ToString(c))

(* the entity types that get a results array and an error histogram *)
ResultTypes == {"brands", "suppliers", "products", "customers", "sales"}

Counter == Rec([success |-> Int_(0), failed |-> Int_(0)])

(* self._data as CloneLogger.__init__ builds it *)
InitialData(source_domain, dest_domain, now) ==
    Rec([
        metadata |-> Rec([
            started_at |-> now,
            source_domain |-> Str(source_domain),
            dest_domain |-> Str(dest_domain),
            status |-> Str("in_progress")]),
        summary |-> Rec([
            brands |-> Counter, suppliers |-> Counter, products |-> Counter,
            customers |-> Counter, sales |-> Counter, inventory |-> Counter]),
        error_summary |-> Rec([
            brands |-> EmptyDict, suppliers |-> EmptyDict, products |-> EmptyDict,
            customers |-> EmptyDict, sales |-> EmptyDict]),
        results |-> Rec([
            brands |-> EmptyList, suppliers |-> EmptyList, products |-> EmptyList,
            customers |-> EmptyList, sales |-> EmptyList,
            failed_brands |-> EmptyList, failed_suppliers |-> EmptyList,
            failed_products |-> EmptyList, failed_customers |-> EmptyList,
            failed_sales |-> EmptyList]),
        operations |-> EmptyList])

(* self._data[a][b] = v *)
Put2(x, a, b, v) == Put(x, a, Put(Get(x, a), b, v))

(* self._data[a][b][c] = v *)
Put3(x, a, b, c, v) == Put(x, a, Put2(Get(x, a), b, c, v))

(* f"failed_{entity_type}" *)
FailedKey(entity_type) == "failed_" \o entity_type

(* entry / result_entry with the optional identifier *)
WithIdentifier(entry, identifier) ==
    IF Truthy(identifier) THEN Put(entry, "identifier", identifier) ELSE entry

(* result_entry.update(extra_data) when extra_data is truthy *)
WithExtra(entry, extra_data) ==
    IF Truthy(extra_data) THEN Update(entry, extra_data) ELSE entry

(* the append replaced by an assignment of a one-element list *)
AppendOperation_overwrite(d, entry) == Put(d, "operations", List(<<entry>>))

(* self._data["operations"].append(entry) *)
AppendOperation(d, entry) == Put(d, "operations", Push(Get(d, "operations"), entry))

(* the increment replaced by an assignment of 1 *)
Increment_set(d, entity_type, field) == Put3(d, "summary", entity_type, field, Int_(1))

(* self._data["summary"][entity_type][field] += 1 *)
Increment(d, entity_type, field) ==
    Put3(d, "summary", entity_type, field,
         Int_(Get(Get(Get(d, "summary"), entity_type), field).n + 1))

(* the bucket restarted at 1 on every failure *)
CountError_reset(error_counts, error_type) == Int_(1)

(* error_counts.get(error_type, 0) + 1 *)
CountError(error_counts, error_type) ==
    Int_(GetOr(error_counts, error_type, Int_(0)).n + 1)

(* The body of log_success up to, not including, the final self._write().  *)
(* The result says whether the statement at line 171 raised KeyError, and  *)
(* what _data is at that point.                                            *)
log_success(d, now, entity_type, source_id, new_id, status_code, identifier, extra_data) ==
    LET entry == WithIdentifier(
            Rec([timestamp |-> now,
                 status |-> Str("success"),
                 entity_type |-> Str(entity_type),
                 status_code |-> status_code,
                 source_id |-> source_id,
                 new_id |-> new_id]), identifier)
        d1 == AppendOperation(d, entry)
    IN  IF ~Has(Get(d1, "summary"), entity_type)
        THEN [raised |-> TRUE, data |-> d1]
        ELSE
        LET d2 == Increment(d1, entity_type, "success")
            result_entry == WithExtra(WithIdentifier(
                Rec([source_id |-> source_id, new_id |-> new_id]), identifier), extra_data)
            d3 == IF entity_type \in ResultTypes
                  THEN Put2(d2, "results", entity_type,
                            Push(Get(Get(d2, "results"), entity_type), result_entry))
                  ELSE d2
        IN  [raised |-> FALSE, data |-> d3]

(* entry with request_payload / response_body when they are truthy *)
WithOptional(entry, key, value) ==
    IF Truthy(value) THEN Put(entry, key, value) ELSE entry

(* The body of log_failure up to, not including, the final self._write(). *)
log_failure(d, now, entity_type, source_id, status_code, error_message, error_type, request_payload, response_body, identifier, extra_data) ==
    LET entry == WithOptional(WithOptional(WithIdentifier(
            Rec([timestamp |-> now,
                 status |-> Str("failed"),
                 entity_type |-> Str(entity_type),
                 status_code |-> status_code,
                 source_id |-> source_id,
                 error |-> Str(error_message),
                 error_type |-> Str(error_type)]), identifier),
            "request_payload", request_payload), "response_body", response_body)
        d1 == AppendOperation(d, entry)
    IN  IF ~Has(Get(d1, "summary"), entity_type)
        THEN [raised |-> TRUE, data |-> d1]
        ELSE
        LET d2 == Increment(d1, entity_type, "failed")
            error_counts == Get(Get(d2, "error_summary"), entity_type)
            result_entry == WithExtra(WithIdentifier(
                Rec([reason |-> Str(error_message), error_type |-> Str(error_type)]),
                identifier), extra_data)
            d3 == IF entity_type \in ResultTypes
                  THEN Put2(
                         Put3(d2, "error_summary", entity_type, error_type,
                              CountError(error_counts, error_type)),
                         "results", FailedKey(entity_type),
                         Push(Get(Get(d2, "results"), FailedKey(entity_type)), result_entry))
                  ELSE d2
        IN  [raised |-> FALSE, data |-> d3]

(* set_inventory_counts up to the final self._write() *)
set_inventory_counts(d, updated, failed) ==
    Put3(Put3(d, "summary", "inventory", "success", Int_(updated)),
         "summary", "inventory", "failed", Int_(failed))

(* complete up to the final self._write() *)
complete(d, now, status) ==
    Put2(Put2(d, "metadata", "completed_at", now), "metadata", "status", Str(status))

(* get_error_summary *)
get_error_summary(d) == Get(d, "error_summary")

(* get_results: the dict handed to the caller *)
get_results(d, source_domain, dest_domain, filepath) ==
    Rec([
        source_domain |-> Str(source_domain),
        dest_domain |-> Str(dest_domain),
        products |-> Get(Get(d, "results"), "products"),
        customers |-> Get(Get(d, "results"), "customers"),
        sales |-> Get(Get(d, "results"), "sales"),
        failed_products |-> Get(Get(d, "results"), "failed_products"),
        failed_customers |-> Get(Get(d, "results"), "failed_customers"),
        failed_sales |-> Get(Get(d, "results"), "failed_sales"),
        inventory_updated |-> Get(Get(Get(d, "summary"), "inventory"), "success"),
        inventory_failed |-> Get(Get(Get(d, "summary"), "inventory"), "failed"),
        error_summary |-> Get(d, "error_summary"),
        log_file |-> Str(filepath)])

----------------------------------------------------------------------------
(* CloneLogger as a state machine.  A call mutates _data and then runs     *)
(* _write, which opens the log file for writing (truncating it), streams   *)
(* the JSON text into it and closes it.  The process can be terminated     *)
(* between any two of these steps.                                         *)

MaxCalls == 3

MaxCount == 1

SourceDomain == "src"

DestDomain == "dst"

(* self.filepath *)
Filepath == "logs/clone-" \o SourceDomain \o "-to-" \o DestDomain \o "-T0.json"

(* entity_type arguments: three the logger keeps a summary for, and the    *)
(* singular form used by the docstrings, which it keeps none for           *)
EntityTypeArgs == {"products", "sales", "inventory", "product"}

SuccessArgs ==
    { [source_id |-> Str("src-1"), new_id |-> Str("dst-1"), status_code |-> Int_(201),
       identifier |-> None, extra_data |-> None],
      [source_id |-> Str("src-2"), new_id |-> Str("dst-2"), status_code |-> Int_(200),
       identifier |-> Str("SKU-2"), extra_data |-> Rec([name |-> Str("Widget")])] }

FailureArgs ==
    { [source_id |-> Str("src-1"), status_code |-> None,
       error_message |-> "Unknown error", error_type |-> "unknown",
       request_payload |-> None, response_body |-> None,
       identifier |-> None, extra_data |-> None],
      [source_id |-> Str("src-2"), status_code |-> Int_(422),
       error_message |-> "name is required", error_type |-> "validation",
       request_payload |-> Rec([sku |-> Str("SKU-2")]),
       response_body |-> Str("Unprocessable"),
       identifier |-> Str("SKU-2"), extra_data |-> Rec([name |-> Str("Widget")])] }

CompleteArgs == {"completed"}

NoCalls == [e \in EntityTypeArgs |-> [success |-> 0, failed |-> 0]]

(* the file holding the complete JSON text of document d *)
Written(d) == [state |-> "complete", json |-> JsonDump(d)]

(* no run of run_clone under way *)
RunIdle ==
    /\ flags = <<>>
    /\ source_client = <<>>
    /\ dest_client = <<>>
    /\ rpc = "none"
    /\ idx = 0
    /\ dest_names = <<>>
    /\ run_brand_mapping = <<>>
    /\ run_supplier_mapping = <<>>
    /\ stage_maps = <<>>
    /\ inventory_counts = <<>>
    /\ trace = <<>>

(* the logger after CloneLogger(source_domain, dest_domain) has returned *)
LoggerIdle ==
    /\ data = InitialData(SourceDomain, DestDomain, Timestamp(1))
    /\ file = Written(data)
    /\ lpc = "idle"
    /\ clock = 2
    /\ ncalls = 0
    /\ last = [op |-> "__init__", entity_type |-> "", outcome |-> "returned", ret |-> None]
    /\ calls = NoCalls
    /\ returned = <<>>

InitLogger ==
    /\ LoggerIdle
    /\ RunIdle
    /\ args = <<>>
    /\ result = None
    /\ fpc = "none"

Started(op, entity_type, raised) ==
    [op |-> op, entity_type |-> entity_type,
     outcome |-> IF raised THEN "raised" ELSE "running", ret |-> None]

LogSuccess ==
    /\ lpc = "idle"
    /\ ncalls < MaxCalls
    /\ \E entity_type \in EntityTypeArgs, a \in SuccessArgs :
         LET r == log_success(data, Timestamp(clock), entity_type, a.source_id, a.new_id,
                              a.status_code, a.identifier, a.extra_data)
         IN  /\ data' = r.data
             /\ lpc' = IF r.raised THEN "idle" ELSE "write"
             /\ last' = Started("log_success", entity_type, r.raised)
             /\ calls' = [calls EXCEPT ![entity_type].success = @ + 1]
    /\ clock' = clock + 1
    /\ ncalls' = ncalls + 1
    /\ UNCHANGED <<file, returned>>
    /\ UNCHANGED <<transformVars, runVars>>

LogFailure ==
    /\ lpc = "idle"
    /\ ncalls < MaxCalls
    /\ \E entity_type \in EntityTypeArgs, a \in FailureArgs :
         LET r == log_failure(data, Timestamp(clock), entity_type, a.source_id, a.status_code,
                              a.error_message, a.error_type, a.request_payload,
                              a.response_body, a.identifier, a.extra_data)
         IN  /\ data' = r.data
             /\ lpc' = IF r.raised THEN "idle" ELSE "write"
             /\ last' = Started("log_failure", entity_type, r.raised)
             /\ calls' = [calls EXCEPT ![entity_type].failed = @ + 1]
    /\ clock' = clock + 1
    /\ ncalls' = ncalls + 1
    /\ UNCHANGED <<file, returned>>
    /\ UNCHANGED <<transformVars, runVars>>

SetInventoryCounts ==
    /\ lpc = "idle"
    /\ ncalls < MaxCalls
    /\ \E updated \in 0..MaxCount, failed \in 0..MaxCount :
         data' = set_inventory_counts(data, updated, failed)
    /\ lpc' = "write"
    /\ last' = Started("set_inventory_counts", "", FALSE)
    /\ ncalls' = ncalls + 1
    /\ UNCHANGED <<file, clock, calls, returned>>
    /\ UNCHANGED <<transformVars, runVars>>

Complete ==
    /\ lpc = "idle"
    /\ ncalls < MaxCalls
    /\ \E status \in CompleteArgs :
         data' = complete(data, Timestamp(clock), status)
    /\ lpc' = "write"
    /\ last' = Started("complete", "", FALSE)
    /\ clock' = clock + 1
    /\ ncalls' = ncalls + 1
    /\ UNCHANGED <<file, calls, returned>>
    /\ UNCHANGED <<transformVars, runVars>>

GetResults ==
    /\ lpc = "idle"
    /\ ncalls < MaxCalls
    /\ last' = [op |-> "get_results", entity_type |-> "", outcome |-> "returned",
                ret |-> get_results(data, SourceDomain, DestDomain, Filepath)]
    /\ ncalls' = ncalls + 1
    /\ UNCHANGED <<data, file, lpc, clock, calls, returned>>
    /\ UNCHANGED <<transformVars, runVars>>

(* _write, line 137: open(self.filepath, "w") truncates the file *)
WriteOpen ==
    /\ lpc = "write"
    /\ file' = [state |-> "empty"]
    /\ lpc' = "dump"
    /\ UNCHANGED <<data, clock, ncalls, last, calls, returned>>
    /\ UNCHANGED <<transformVars, runVars>>

(* _write, line 138: json.dump has flushed part of the text to the file *)
WriteFlush ==
    /\ lpc = "dump"
    /\ file.state = "empty"
    /\ file' = [state |-> "partial"]
    /\ UNCHANGED <<data, lpc, clock, ncalls, last, calls, returned>>
    /\ UNCHANGED <<transformVars, runVars>>

(* _write, end of the with block: all the text is in the file; the call    *)
(* that ran _write returns                                                 *)
WriteClose ==
    /\ lpc = "dump"
    /\ file' = Written(data)
    /\ lpc' = "idle"
    /\ last' = [last EXCEPT !.outcome = "returned"]
    /\ returned' = IF last.op \in {"log_success", "log_failure"}
                   THEN Append(returned, Get(data, "operations").l[Len(Get(data, "operations").l)])
                   ELSE returned
    /\ UNCHANGED <<data, clock, ncalls, calls>>
    /\ UNCHANGED <<transformVars, runVars>>

(* the process is terminated; what is on disk stays as it is *)
Kill ==
    /\ lpc # "killed"
    /\ lpc' = "killed"
    /\ UNCHANGED <<data, file, clock, ncalls, last, calls, returned>>
    /\ UNCHANGED <<transformVars, runVars>>

NextLogger ==
    \/ LogSuccess
    \/ LogFailure
    \/ SetInventoryCounts
    \/ Complete
    \/ GetResults
    \/ WriteOpen
    \/ WriteFlush
    \/ WriteClose
    \/ Kill

SpecLogger == InitLogger /\ [][NextLogger]_vars

(* only log_success and log_failure are called *)
NextLogCalls ==
    \/ LogSuccess
    \/ LogFailure
    \/ WriteOpen
    \/ WriteFlush
    \/ WriteClose

SpecLogCalls == InitLogger /\ [][NextLogCalls]_vars

(* the document a reader of the log file gets *)
ReadBack == JsonLoad(file.json)

TypeOKLogger ==
    /\ lpc \in {"idle", "write", "dump", "killed"}
    /\ file.state \in {"empty", "partial", "complete"}
    /\ ncalls \in 0..MaxCalls

----------------------------------------------------------------------------
(* Properties of CloneLogger *)

LogOps == {"log_success", "log_failure"}

(* self._data["operations"] as a sequence *)
Ops == Get(data, "operations").l

Summary == Get(data, "summary")

ErrorSummary == Get(data, "error_summary")

IsPrefix(p, q) == Len(p) <= Len(q) /\ SubSeq(q, 1, Len(p)) = p

(* a log_success or log_failure call has just ended, normally or by raising *)
AfterLogCall == lpc = "idle" /\ last.op \in LogOps /\ last.outcome \in {"returned", "raised"}

(* the log file holds a complete document and it is the in-memory one *)
FileMirrorsData == file.state = "complete" /\ ReadBack = data

(* C1: immediately after each log_success or log_failure call, the document *)
(* read back from the log file equals the in-memory document.               *)
C1_WriteThrough == AfterLogCall => FileMirrorsData

(* C2: if the process is terminated at any point, the log file is a         *)
(* complete document that contains every entry appended by the log calls    *)
(* that had returned.                                                       *)
C2_CrashLeavesCompleteLog ==
    lpc = "killed" =>
        /\ file.state = "complete"
        /\ IsPrefix(returned, Get(ReadBack, "operations").l)

(* number of log calls made so far for an entity type, by status *)
CallsMade(entity_type, status) ==
    IF entity_type \in DOMAIN calls THEN calls[entity_type][status] ELSE 0

RECURSIVE SumValues(_, _)
SumValues(h, keys) ==
    IF keys = {} THEN 0
    ELSE LET k == CHOOSE x \in keys : TRUE
         IN  h.d[k].n + SumValues(h, keys \ {k})

(* the sum of the counts of an error histogram *)
HistogramSum(h) == SumValues(h, DOMAIN h.d)

SummaryMatchesCalls(entity_type) ==
    Get(Summary, entity_type) =
        Rec([success |-> Int_(CallsMade(entity_type, "success")),
             failed |-> Int_(CallsMade(entity_type, "failed"))])

(* C3, as stated: for every entity type with a summary, the summary equals  *)
(* the numbers of success and failure calls made for the type and the       *)
(* counts of the type's error histogram sum to the number of failure calls. *)
C3_Original ==
    \A entity_type \in DOMAIN Summary.d :
        /\ SummaryMatchesCalls(entity_type)
        /\ HistogramSum(GetOr(ErrorSummary, entity_type, EmptyDict))
               = CallsMade(entity_type, "failed")

(* C3, amended: the summary of every entity type equals the numbers of      *)
(* calls made; the histogram sums to the number of failure calls for the    *)
(* five types that have one; inventory failures are counted in the summary  *)
(* only.                                                                    *)
C3_SummaryCountsCalls ==
    /\ DOMAIN ErrorSummary.d = ResultTypes
    /\ \A entity_type \in DOMAIN Summary.d :
        /\ SummaryMatchesCalls(entity_type)
        /\ entity_type \in ResultTypes =>
               HistogramSum(Get(ErrorSummary, entity_type)) = CallsMade(entity_type, "failed")

C3_Witness ==
    /\ lpc = "idle"
    /\ CallsMade("products", "success") = 1
    /\ CallsMade("products", "failed") = 2
    /\ DOMAIN Get(ErrorSummary, "products").d = {"unknown", "validation"}

(* number of operation entries of an entity type with a status *)
CountOps(entity_type, status) ==
    Cardinality({i \in 1..Len(Ops) :
        /\ Get(Ops[i], "entity_type") = Str(entity_type)
        /\ Get(Ops[i], "status") = Str(status)})

SummaryMatchesOps(entity_type) ==
    /\ Get(Get(Summary, entity_type), "success").n = CountOps(entity_type, "success")
    /\ Get(Get(Summary, entity_type), "failed").n = CountOps(entity_type, "failed")

(* C4, as stated: for every entity type including inventory the summary     *)
(* counts equal the numbers of operation entries of that type and status.   *)
C4_Original == \A entity_type \in DOMAIN Summary.d : SummaryMatchesOps(entity_type)

(* C4, amended: the summary counts equal the numbers of operation entries   *)
(* for every entity type other than inventory.                              *)
C4_SummaryFromOperations ==
    \A entity_type \in DOMAIN Summary.d \ {"inventory"} : SummaryMatchesOps(entity_type)

C4_Witness ==
    /\ lpc = "idle"
    /\ last.op = "set_inventory_counts"
    /\ CountOps("products", "success") = 1
    /\ CountOps("products", "failed") = 1

(* a step that starts a log_success or log_failure call *)
LogCallStep == ncalls' = ncalls + 1 /\ last'.op \in LogOps

(* C5: the operation list is append-only: a log call appends exactly one    *)
(* entry, and no step changes or removes an entry already in the list.      *)
C5_AppendOnly ==
    [][ /\ IsPrefix(Ops, Ops')
        /\ Len(Ops') = Len(Ops) + (IF LogCallStep THEN 1 ELSE 0) ]_vars

C5_Witness ==
    /\ Len(Ops) = 2
    /\ last.op \in {"set_inventory_counts", "complete", "get_results"}
    /\ last.outcome = "returned"

----------------------------------------------------------------------------
(* Identity maps: dicts from source identifiers to destination identifiers *)

(* v in mapping, for a value v read from a record: the keys of a map are   *)
(* strings, so None is never a key                                         *)
In(v, mapping) == v.t = "str" /\ v.s \in DOMAIN mapping.d

(* mapping[v] *)
Lookup(mapping, v) == mapping.d[v.s]

(* mapping.get(v) *)
MapGet(mapping, v) == IF In(v, mapping) THEN mapping.d[v.s] ELSE None

----------------------------------------------------------------------------
(* transform_sale_for_creation *)

(* the line item kept with its source product identifier *)
transform_line_item_unsubstituted(item, product_mapping, tax_mapping) ==
    LET transformed_item == Rec([
            product_id |-> GetOr(item, "product_id", None),
            quantity |-> GetOr(item, "quantity", Int_(1)),
            price |-> GetOr(item, "price", Int_(0)),
            discount |-> GetOr(item, "discount", Int_(0)),
            loyalty_value |-> GetOr(item, "loyalty_value", Int_(0))])
        source_tax_id == GetOr(item, "tax_id", None)
    IN  IF Truthy(source_tax_id) /\ In(source_tax_id, tax_mapping)
        THEN Put(transformed_item, "tax_id", Lookup(tax_mapping, source_tax_id))
        ELSE transformed_item

(* lines 383-394: the payload of a line item whose product is mapped *)
transform_line_item(item, product_mapping, tax_mapping) ==
    LET transformed_item == Rec([
            product_id |-> Lookup(product_mapping, GetOr(item, "product_id", None)),
            quantity |-> GetOr(item, "quantity", Int_(1)),
            price |-> GetOr(item, "price", Int_(0)),
            discount |-> GetOr(item, "discount", Int_(0)),
            loyalty_value |-> GetOr(item, "loyalty_value", Int_(0))])
        source_tax_id == GetOr(item, "tax_id", None)
    IN  IF Truthy(source_tax_id) /\ In(source_tax_id, tax_mapping)
        THEN Put(transformed_item, "tax_id", Lookup(tax_mapping, source_tax_id))
        ELSE transformed_item

(* lines 377-396: the loop over line_items, from index i on, with          *)
(* transformed_items as built so far                                       *)
RECURSIVE transform_line_items(_, _, _, _, _)
transform_line_items(line_items, i, transformed_items, product_mapping, tax_mapping) ==
    IF i > Len(line_items) THEN transformed_items
    ELSE LET item == line_items[i]
             source_product_id == GetOr(item, "product_id", None)
         IN  IF ~In(source_product_id, product_mapping)
             THEN transform_line_items(line_items, i + 1, transformed_items,
                                       product_mapping, tax_mapping)
             ELSE transform_line_items(line_items, i + 1,
                      Append(transformed_items,
                             transform_line_item(item, product_mapping, tax_mapping)),
                      product_mapping, tax_mapping)

(* lines 405-414: the loop over payments *)
RECURSIVE transform_payments(_, _, _, _)
transform_payments(payments, i, transformed_payments, payment_type_mapping) ==
    IF i > Len(payments) THEN transformed_payments
    ELSE LET payment == payments[i]
             source_payment_type_id == GetOr(payment, "payment_type_id", None)
         IN  IF ~In(source_payment_type_id, payment_type_mapping)
             THEN transform_payments(payments, i + 1, transformed_payments,
                                     payment_type_mapping)
             ELSE transform_payments(payments, i + 1,
                      Append(transformed_payments,
                          Rec([payment_type_id |->
                                   Lookup(payment_type_mapping, source_payment_type_id),
                               amount |-> GetOr(payment, "amount", Int_(0))])),
                      payment_type_mapping)

(* the payments list stored even when it is empty *)
with_payments_always(transformed, transformed_payments) ==
    Put(transformed, "register_sale_payments", List(transformed_payments))

(* lines 416-417 *)
with_payments(transformed, transformed_payments) ==
    IF Truthy(List(transformed_payments))
    THEN Put(transformed, "register_sale_payments", List(transformed_payments))
    ELSE transformed

SaleCopiedFields == {"note", "short_code", "total_price", "total_tax"}

(* lines 420-422: copy the descriptive fields that are present and not None *)
copy_other_fields(transformed, sale) ==
    LET copied == {field \in SaleCopiedFields : Has(sale, field) /\ Get(sale, field) # None}
    IN  Dict([k \in DOMAIN transformed.d \cup copied |->
                IF k \in copied THEN Get(sale, k) ELSE transformed.d[k]])

(* lines 370-373 *)
with_customer(transformed, sale, customer_mapping) ==
    LET source_customer_id == GetOr(sale, "customer_id", None)
    IN  IF Truthy(source_customer_id) /\ In(source_customer_id, customer_mapping)
        THEN Put(transformed, "customer_id", Lookup(customer_mapping, source_customer_id))
        ELSE transformed

(* lines 370-424: the rest of the function once `transformed` holds the    *)
(* required fields                                                         *)
sale_body(sale, transformed, product_mapping, customer_mapping, tax_mapping, payment_type_mapping) ==
    LET t1 == with_customer(transformed, sale, customer_mapping)
        line_items == GetOr(sale, "register_sale_products", EmptyList).l
        transformed_items ==
            transform_line_items(line_items, 1, <<>>, product_mapping, tax_mapping)
    IN  IF ~Truthy(List(transformed_items)) THEN None
        ELSE
        LET t2 == Put(t1, "register_sale_products", List(transformed_items))
            payments == GetOr(sale, "register_sale_payments", EmptyList).l
            transformed_payments == transform_payments(payments, 1, <<>>, payment_type_mapping)
            t3 == with_payments(t2, transformed_payments)
        IN  copy_other_fields(t3, sale)

(* the user check left out, the user looked up with user_mapping.get *)
transform_sale_for_creation_nousercheck(sale, product_mapping, customer_mapping, register_mapping, user_mapping, tax_mapping, payment_type_mapping) ==
    LET source_register_id == GetOr(sale, "register_id", None)
        source_user_id == GetOr(sale, "user_id", None)
    IN  IF ~In(source_register_id, register_mapping) THEN None
        ELSE sale_body(sale,
                 Rec([register_id |-> Lookup(register_mapping, source_register_id),
                      user_id |-> MapGet(user_mapping, source_user_id),
                      status |-> Str("CLOSED"),
                      sale_date |-> GetOr(sale, "sale_date", None)]),
                 product_mapping, customer_mapping, tax_mapping, payment_type_mapping)

transform_sale_for_creation(sale, product_mapping, customer_mapping, register_mapping, user_mapping, tax_mapping, payment_type_mapping) ==
    LET source_register_id == GetOr(sale, "register_id", None)
        source_user_id == GetOr(sale, "user_id", None)
    IN  IF ~In(source_register_id, register_mapping) THEN None
        ELSE IF ~In(source_user_id, user_mapping) THEN None
        ELSE sale_body(sale,
                 Rec([register_id |-> Lookup(register_mapping, source_register_id),
                      user_id |-> Lookup(user_mapping, source_user_id),
                      status |-> Str("CLOSED"),
                      sale_date |-> GetOr(sale, "sale_date", None)]),
                 product_mapping, customer_mapping, tax_mapping, payment_type_mapping)

----------------------------------------------------------------------------
(* Calls of transform_sale_for_creation on sales and maps of the shapes   *)
(* clone_sales passes                                                      *)

MaxItems == 2

(* marks a field left out of a record *)
Absent == [t |-> "absent"]

(* the dict with the fields of r that are not Absent *)
MakeDict(r) == Dict([k \in {f \in DOMAIN r : r[f] # Absent} |-> r[k]])

(* the sequences over S of length at most n *)
SeqUpTo(S, n) == UNION {[1..k -> S] : k \in 0..n}

LineItemKinds ==
    { MakeDict([product_id |-> Str("prod-src-1"), quantity |-> Int_(2), price |-> Int_(10),
                tax_id |-> Str("tax-src-1")]),
      MakeDict([product_id |-> Str("prod-src-2"), quantity |-> Absent, price |-> Absent,
                tax_id |-> Absent]),
      MakeDict([product_id |-> Str("unmapped-product"), quantity |-> Int_(1), price |-> Absent,
                tax_id |-> Str("tax-src-1")]),
      MakeDict([product_id |-> Str("prod-src-1"), quantity |-> Int_(3), price |-> Int_(5),
                tax_id |-> Str("unmapped-tax")]) }

LineItemLists == {Absent} \cup {List(q) : q \in SeqUpTo(LineItemKinds, MaxItems)}

PaymentMapped == Rec([payment_type_id |-> Str("pt-src-1"), amount |-> Int_(10)])

PaymentUnmapped == Rec([payment_type_id |-> Str("unmapped-pt"), amount |-> Int_(5)])

PaymentNoAmount == Rec([payment_type_id |-> Str("pt-src-1")])

PaymentLists ==
    { Absent, EmptyList, List(<<PaymentMapped>>), List(<<PaymentUnmapped>>),
      List(<<PaymentUnmapped, PaymentNoAmount>>), List(<<PaymentMapped, PaymentUnmapped>>) }

SaleOptionalFields ==
    { [sale_date |-> Str("2024-01-15"), note |-> Str("gift"), total_price |-> Int_(25)],
      [sale_date |-> Absent, note |-> None, total_price |-> Absent] }

Sales ==
    { MakeDict([id |-> Str("sale-src-1"),
                status |-> Str("OPEN"),
                receipt_number |-> Str("R-1"),
                register_id |-> register_id,
                user_id |-> user_id,
                customer_id |-> customer_id,
                sale_date |-> o.sale_date,
                note |-> o.note,
                total_price |-> o.total_price,
                register_sale_products |-> items,
                register_sale_payments |-> payments]) :
        register_id \in {Absent, Str("reg-src-1"), Str("unmapped-register")},
        user_id \in {Absent, Str("user-src-1"), Str("unmapped-user")},
        customer_id \in {Absent, None, Str("cust-src-1"), Str("unmapped-customer")},
        o \in SaleOptionalFields,
        items \in LineItemLists,
        payments \in PaymentLists }

ProductMap == Rec([k \in {"prod-src-1", "prod-src-2"} |->
                     IF k = "prod-src-1" THEN Str("prod-dst-1") ELSE Str("prod-dst-2")])

CustomerMap == Rec([k \in {"cust-src-1"} |-> Str("cust-dst-1")])

RegisterMap == Rec([k \in {"reg-src-1"} |-> Str("reg-dst-1")])

UserMap == Rec([k \in {"user-src-1"} |-> Str("user-dst-1")])

TaxMap == Rec([k \in {"tax-src-1"} |-> Str("tax-dst-1")])

PaymentTypeMap == Rec([k \in {"pt-src-1"} |-> Str("pt-dst-1")])

(* the six maps of a run: all matched; nothing matched; the optional       *)
(* references unmatched; no product cloned; no user matched                *)
SaleMaps ==
    { [product_mapping |-> ProductMap, customer_mapping |-> CustomerMap,
       register_mapping |-> RegisterMap, user_mapping |-> UserMap,
       tax_mapping |-> TaxMap, payment_type_mapping |-> PaymentTypeMap],
      [product_mapping |-> EmptyDict, customer_mapping |-> EmptyDict,
       register_mapping |-> EmptyDict, user_mapping |-> EmptyDict,
       tax_mapping |-> EmptyDict, payment_type_mapping |-> EmptyDict],
      [product_mapping |-> ProductMap, customer_mapping |-> EmptyDict,
       register_mapping |-> RegisterMap, user_mapping |-> UserMap,
       tax_mapping |-> EmptyDict, payment_type_mapping |-> EmptyDict],
      [product_mapping |-> EmptyDict, customer_mapping |-> CustomerMap,
       register_mapping |-> RegisterMap, user_mapping |-> UserMap,
       tax_mapping |-> TaxMap, payment_type_mapping |-> PaymentTypeMap],
      [product_mapping |-> ProductMap, customer_mapping |-> CustomerMap,
       register_mapping |-> RegisterMap, user_mapping |-> EmptyDict,
       tax_mapping |-> TaxMap, payment_type_mapping |-> PaymentTypeMap] }

InitSale ==
    /\ LoggerIdle
    /\ RunIdle
    /\ args \in {[sale |-> sale, maps |-> maps] : sale \in Sales, maps \in SaleMaps}
    /\ result = None
    /\ fpc = "ready"

TransformSale ==
    /\ fpc = "ready"
    /\ result' = transform_sale_for_creation(args.sale, args.maps.product_mapping,
                     args.maps.customer_mapping, args.maps.register_mapping,
                     args.maps.user_mapping, args.maps.tax_mapping,
                     args.maps.payment_type_mapping)
    /\ fpc' = "done"
    /\ UNCHANGED <<args, loggerVars, runVars>>

NextSale == TransformSale

SpecSale == InitSale /\ [][NextSale]_vars

----------------------------------------------------------------------------
(* Properties of transform_sale_for_creation *)

(* record has the field and its value is a key of mapping *)
KeyOf(record, field, mapping) ==
    /\ field \in DOMAIN record.d
    /\ record.d[field].t = "str"
    /\ record.d[field].s \in DOMAIN mapping.d

(* the destination identifier the field of record maps to *)
Mapped(record, field, mapping) == mapping.d[record.d[field].s]

SaleDone == fpc = "done"

RequiredMapped ==
    /\ KeyOf(args.sale, "register_id", args.maps.register_mapping)
    /\ KeyOf(args.sale, "user_id", args.maps.user_mapping)

(* the source list under a key, empty when the sale has no such key *)
SourceList(key) ==
    IF key \in DOMAIN args.sale.d THEN args.sale.d[key].l ELSE <<>>

(* the source line items whose product is mapped, in source order *)
QualifyingItems ==
    LET Qualifies(item) == KeyOf(item, "product_id", args.maps.product_mapping)
    IN  SelectSeq(SourceList("register_sale_products"), Qualifies)

(* the source payments whose payment type is mapped, in source order *)
QualifyingPayments ==
    LET Qualifies(payment) == KeyOf(payment, "payment_type_id", args.maps.payment_type_mapping)
    IN  SelectSeq(SourceList("register_sale_payments"), Qualifies)

(* C6: the transformer returns no result whenever register_id is not a key *)
(* of the register map or user_id is not a key of the user map, absent     *)
(* fields included, whatever the other fields and maps are.                *)
C6_RequiredReferences ==
    (SaleDone /\ ~RequiredMapped) => result = None

C6_Witness ==
    /\ SaleDone
    /\ KeyOf(args.sale, "register_id", args.maps.register_mapping)
    /\ ~KeyOf(args.sale, "user_id", args.maps.user_mapping)
    /\ Len(QualifyingItems) = 2
    /\ result = None

(* C7: with register and user mapped, the line items of the result are the *)
(* source line items whose product_id is a key of the product map, in      *)
(* source order, each with the mapped product identifier; with no such     *)
(* line item the transformer returns no result.                            *)
C7_LineItems ==
    (SaleDone /\ RequiredMapped) =>
        IF QualifyingItems = <<>> THEN result = None
        ELSE /\ result # None
             /\ LET items == Get(result, "register_sale_products").l
                IN  /\ Len(items) = Len(QualifyingItems)
                    /\ \A i \in 1..Len(items) :
                         /\ Get(items[i], "product_id") =
                                Mapped(QualifyingItems[i], "product_id",
                                       args.maps.product_mapping)
                         /\ Get(items[i], "quantity") =
                                GetOr(QualifyingItems[i], "quantity", Int_(1))
                         /\ Get(items[i], "price") =
                                GetOr(QualifyingItems[i], "price", Int_(0))

C7_Witness ==
    /\ SaleDone
    /\ RequiredMapped
    /\ Len(SourceList("register_sale_products")) = 2
    /\ Len(QualifyingItems) = 1
    /\ result # None

C7_WitnessRejected ==
    /\ SaleDone
    /\ RequiredMapped
    /\ KeyOf(args.sale, "customer_id", args.maps.customer_mapping)
    /\ Len(SourceList("register_sale_products")) = 2
    /\ QualifyingItems = <<>>
    /\ result = None

(* C8: with register and user mapped and at least one mapped line item the *)
(* transformer returns a payload; customer_id and the tax_id of each kept  *)
(* item are present exactly when the source reference is mapped, and hold  *)
(* the destination identifier; the payments are the source payments whose  *)
(* payment type is mapped, and the list is left out when none is.          *)
C8_OptionalReferences ==
    (SaleDone /\ RequiredMapped /\ QualifyingItems # <<>>) =>
        /\ result # None
        /\ Has(result, "customer_id")
               <=> KeyOf(args.sale, "customer_id", args.maps.customer_mapping)
        /\ Has(result, "customer_id") =>
               Get(result, "customer_id")
                   = Mapped(args.sale, "customer_id", args.maps.customer_mapping)
        /\ LET items == Get(result, "register_sale_products").l
           IN  \A i \in 1..Len(QualifyingItems) :
                 /\ Has(items[i], "tax_id")
                        <=> KeyOf(QualifyingItems[i], "tax_id", args.maps.tax_mapping)
                 /\ Has(items[i], "tax_id") =>
                        Get(items[i], "tax_id")
                            = Mapped(QualifyingItems[i], "tax_id", args.maps.tax_mapping)
        /\ IF QualifyingPayments = <<>>
           THEN ~Has(result, "register_sale_payments")
           ELSE LET payments == Get(result, "register_sale_payments").l
                IN  /\ Len(payments) = Len(QualifyingPayments)
                    /\ \A i \in 1..Len(payments) :
                         /\ Get(payments[i], "payment_type_id") =
                                Mapped(QualifyingPayments[i], "payment_type_id",
                                       args.maps.payment_type_mapping)
                         /\ Get(payments[i], "amount") =
                                GetOr(QualifyingPayments[i], "amount", Int_(0))

C8_Witness ==
    /\ SaleDone
    /\ RequiredMapped
    /\ Has(args.sale, "customer_id")
    /\ ~KeyOf(args.sale, "customer_id", args.maps.customer_mapping)
    /\ Len(SourceList("register_sale_payments")) = 2
    /\ QualifyingPayments = <<>>
    /\ \E i \in 1..Len(QualifyingItems) :
         /\ Has(QualifyingItems[i], "tax_id")
         /\ ~KeyOf(QualifyingItems[i], "tax_id", args.maps.tax_mapping)
    /\ result # None
    /\ ~Has(result, "register_sale_payments")

----------------------------------------------------------------------------
(* transform_product_for_creation *)

PRODUCT_ALLOWED_FIELDS ==
    { "name", "description", "handle", "sku", "product_codes", "source", "source_id",
      "source_variant_id", "is_active", "price_including_tax", "price_excluding_tax",
      "supply_price", "supplier_id", "supplier_code", "product_suppliers",
      "product_type_id", "product_category_id", "brand_id", "tag_ids",
      "account_code_sale", "account_code_purchase", "loyalty_amount", "weight",
      "weight_unit", "length", "width", "height", "dimensions_unit",
      "all_outlets_tax", "outlet_taxes" }

(* the dict x restricted to the keys in keep *)
Restrict(x, keep) == Dict([k \in keep |-> x.d[k]])

(* lines 190-193: a product code without its identifier and null fields *)
clean_code(code) ==
    Restrict(code, {k \in DOMAIN code.d : k \in {"type", "code"} /\ code.d[k] # None})

(* lines 187-193: the loop over the product codes *)
RECURSIVE clean_codes(_, _, _)
clean_codes(value, i, cleaned) ==
    IF i > Len(value) THEN cleaned
    ELSE IF value[i].t = "dict"
         THEN clean_codes(value, i + 1, Append(cleaned, clean_code(value[i])))
         ELSE clean_codes(value, i + 1, cleaned)

(* the supplier link with its source supplier_id kept when it is unmapped *)
clean_supplier_keep_unmapped(supplier, supplier_mapping) ==
    LET keep == {k \in DOMAIN supplier.d :
                    k \in {"supplier_id", "price", "code"} /\ supplier.d[k] # None}
    IN  Dict([k \in keep |->
                IF k = "supplier_id" /\ In(supplier.d[k], supplier_mapping)
                THEN Lookup(supplier_mapping, supplier.d[k])
                ELSE supplier.d[k]])

(* lines 203-210: a supplier link reduced to supplier_id, price and code,  *)
(* the supplier_id mapped or left out                                      *)
clean_supplier(supplier, supplier_mapping) ==
    LET keep == {k \in DOMAIN supplier.d :
                    /\ k \in {"supplier_id", "price", "code"}
                    /\ supplier.d[k] # None
                    /\ k = "supplier_id" => In(supplier.d[k], supplier_mapping)}
    IN  Dict([k \in keep |->
                IF k = "supplier_id"
                THEN Lookup(supplier_mapping, supplier.d[k])
                ELSE supplier.d[k]])

(* lines 199-212: the loop over the supplier links *)
RECURSIVE clean_suppliers(_, _, _, _)
clean_suppliers(value, i, cleaned, supplier_mapping) ==
    IF i > Len(value) THEN cleaned
    ELSE IF value[i].t = "dict" /\ Truthy(clean_supplier(value[i], supplier_mapping))
         THEN clean_suppliers(value, i + 1,
                  Append(cleaned, clean_supplier(value[i], supplier_mapping)),
                  supplier_mapping)
         ELSE clean_suppliers(value, i + 1, cleaned, supplier_mapping)

(* lines 172-183: brand_id and supplier_id are mapped, or skipped *)
project_reference(value, mapping) ==
    IF In(value, mapping) THEN Lookup(mapping, value) ELSE Absent

(* lines 166-217: what one pass of the loop stores in transformed[key],    *)
(* Absent when it stores nothing                                           *)
project_field(key, value, brand_mapping, supplier_mapping) ==
    IF key \notin PRODUCT_ALLOWED_FIELDS THEN Absent
    ELSE IF value = None THEN Absent
    ELSE IF key = "brand_id" THEN project_reference(value, brand_mapping)
    ELSE IF key = "supplier_id" THEN project_reference(value, supplier_mapping)
    ELSE IF key = "product_codes" /\ value.t = "list"
         THEN LET cleaned == List(clean_codes(value.l, 1, <<>>))
              IN  IF Truthy(cleaned) THEN cleaned ELSE Absent
    ELSE IF key = "product_suppliers" /\ value.t = "list"
         THEN LET cleaned == List(clean_suppliers(value.l, 1, <<>>, supplier_mapping))
              IN  IF Truthy(cleaned) THEN cleaned ELSE Absent
    ELSE value

(* lines 164-217: the loop over product.items() *)
project_fields(product, brand_mapping, supplier_mapping) ==
    MakeDict([key \in DOMAIN product.d |->
                project_field(key, product.d[key], brand_mapping, supplier_mapping)])

(* lines 220-221 *)
rename_active(transformed, product) ==
    IF ~Has(transformed, "is_active") /\ Has(product, "active")
    THEN Put(transformed, "is_active", Get(product, "active"))
    ELSE transformed

(* the tax-exclusive price discarded whatever the flag says *)
single_price_ignore_flag(transformed, tax_inclusive) ==
    IF Has(transformed, "price_including_tax") /\ Has(transformed, "price_excluding_tax")
    THEN Del(transformed, "price_excluding_tax")
    ELSE transformed

(* lines 224-228 *)
single_price(transformed, tax_inclusive) ==
    IF Has(transformed, "price_including_tax") /\ Has(transformed, "price_excluding_tax")
    THEN IF tax_inclusive
         THEN Del(transformed, "price_excluding_tax")
         ELSE Del(transformed, "price_including_tax")
    ELSE transformed

(* `mapping or {}` *)
OrEmpty(mapping) == IF Truthy(mapping) THEN mapping ELSE EmptyDict

transform_product_for_creation(product, tax_inclusive, brand_mapping, supplier_mapping) ==
    single_price(
        rename_active(
            project_fields(product, OrEmpty(brand_mapping), OrEmpty(supplier_mapping)),
            product),
        tax_inclusive)

----------------------------------------------------------------------------
(* Calls of transform_product_for_creation on products of the shapes the   *)
(* source account returns                                                  *)

MaxSuppliers == 2

SupplierLinkKinds ==
    { Rec([id |-> Str("ps-1"), supplier_id |-> Str("sup-src-1"), price |-> Int_(3),
           code |-> None]),
      Rec([supplier_id |-> Str("unmapped-supplier"), code |-> Str("SC-9")]),
      Rec([supplier_id |-> Str("unmapped-supplier")]) }

SupplierLinkLists == {Absent} \cup {List(q) : q \in SeqUpTo(SupplierLinkKinds, MaxSuppliers)}

ProductCodeLists ==
    { Absent,
      List(<<Rec([id |-> Str("pc-1"), type |-> Str("UPC"), code |-> Str("0123")]),
             Rec([id |-> Str("pc-2"), type |-> Str("EAN"), code |-> None])>>) }

(* price_including_tax and price_excluding_tax *)
ProductPrices ==
    { [incl |-> Absent, excl |-> Absent], [incl |-> Int_(11), excl |-> Int_(10)],
      [incl |-> Int_(11), excl |-> Absent], [incl |-> None, excl |-> Int_(10)],
      [incl |-> Absent, excl |-> Int_(10)] }

(* is_active and the read-side field active *)
ProductActive ==
    { [is_active |-> Absent, active |-> Absent], [is_active |-> Bool(TRUE), active |-> Bool(FALSE)],
      [is_active |-> Absent, active |-> Bool(FALSE)], [is_active |-> None, active |-> Bool(TRUE)],
      [is_active |-> Absent, active |-> None] }

(* the system-managed and descriptive fields *)
ProductBase ==
    { [id |-> Str("prod-src-1"), version |-> Int_(7), name |-> Str("Widget"),
       description |-> None, sku |-> Str("SKU-1")],
      [id |-> Absent, version |-> Absent, name |-> Str("Gadget"),
       description |-> Str("A gadget"), sku |-> Absent] }

Products ==
    { MakeDict([id |-> b.id,
                version |-> b.version,
                name |-> b.name,
                description |-> b.description,
                sku |-> b.sku,
                brand_id |-> brand_id,
                supplier_id |-> supplier_id,
                product_codes |-> codes,
                product_suppliers |-> suppliers,
                price_including_tax |-> p.incl,
                price_excluding_tax |-> p.excl,
                is_active |-> a.is_active,
                active |-> a.active]) :
        b \in ProductBase,
        brand_id \in {Absent, None, Str("brand-src-1"), Str("unmapped-brand")},
        supplier_id \in {Absent, Str("sup-src-1"), Str("unmapped-supplier")},
        codes \in ProductCodeLists,
        suppliers \in SupplierLinkLists,
        p \in ProductPrices,
        a \in ProductActive }

BrandMap == Rec([k \in {"brand-src-1"} |-> Str("brand-dst-1")])

SupplierMap == Rec([k \in {"sup-src-1"} |-> Str("sup-dst-1")])

(* the brand and supplier maps: not passed; both filled; no supplier cloned *)
ProductMaps ==
    { [brand_mapping |-> None, supplier_mapping |-> None],
      [brand_mapping |-> BrandMap, supplier_mapping |-> SupplierMap],
      [brand_mapping |-> BrandMap, supplier_mapping |-> EmptyDict] }

InitProduct ==
    /\ LoggerIdle
    /\ RunIdle
    /\ args \in {[product |-> product, tax_inclusive |-> tax_inclusive, maps |-> maps] :
                    product \in Products, tax_inclusive \in BOOLEAN, maps \in ProductMaps}
    /\ result = None
    /\ fpc = "ready"

TransformProduct ==
    /\ fpc = "ready"
    /\ result' = transform_product_for_creation(args.product, args.tax_inclusive,
                     args.maps.brand_mapping, args.maps.supplier_mapping)
    /\ fpc' = "done"
    /\ UNCHANGED <<args, loggerVars, runVars>>

NextProduct == TransformProduct

SpecProduct == InitProduct /\ [][NextProduct]_vars

----------------------------------------------------------------------------
(* Properties of transform_product_for_creation *)

ProductDone == fpc = "done"

(* C9: every key of the output is a member of PRODUCT_ALLOWED_FIELDS and   *)
(* no field of the output has a null value.                                *)
C9_AllowedAndNonNull ==
    ProductDone =>
        /\ DOMAIN result.d \subseteq PRODUCT_ALLOWED_FIELDS
        /\ \A key \in DOMAIN result.d : result.d[key] # None

(* the brand and supplier maps in effect: an omitted map is empty *)
BrandMapping == IF args.maps.brand_mapping = None THEN EmptyDict ELSE args.maps.brand_mapping

SupplierMapping ==
    IF args.maps.supplier_mapping = None THEN EmptyDict ELSE args.maps.supplier_mapping

(* the field of the output is the mapped reference of the source, or is    *)
(* missing when the source value is not a key of the map                   *)
ReferenceFollowsMap(source, output, field, mapping) ==
    /\ (field \in DOMAIN output.d) <=> KeyOf(source, field, mapping)
    /\ (field \in DOMAIN output.d) => output.d[field] = Mapped(source, field, mapping)

(* the fields of a source supplier link that survive, besides supplier_id *)
LinkOtherFields(link) == {k \in DOMAIN link.d \cap {"price", "code"} : link.d[k] # None}

(* a source supplier link leaves an element in the output unless nothing   *)
(* of it survives                                                          *)
LinkSurvives(link) == KeyOf(link, "supplier_id", SupplierMapping) \/ LinkOtherFields(link) # {}

SourceLinks ==
    IF Has(args.product, "product_suppliers") THEN Get(args.product, "product_suppliers").l
    ELSE <<>>

SurvivingLinks == SelectSeq(SourceLinks, LinkSurvives)

OutputLinks ==
    IF Has(result, "product_suppliers") THEN Get(result, "product_suppliers").l ELSE <<>>

(* C10: brand_id, supplier_id and the supplier_id of each product_suppliers *)
(* element are in the output exactly when the source value is a key of the  *)
(* map, and then hold the mapped identifier; an unmapped reference costs    *)
(* the field only: the product is returned and the other fields of the      *)
(* element and the other elements are kept.                                 *)
C10_OwnedReferences ==
    ProductDone =>
        /\ result # None
        /\ ReferenceFollowsMap(args.product, result, "brand_id", BrandMapping)
        /\ ReferenceFollowsMap(args.product, result, "supplier_id", SupplierMapping)
        /\ Len(OutputLinks) = Len(SurvivingLinks)
        /\ \A i \in 1..Len(OutputLinks) :
             /\ ReferenceFollowsMap(SurvivingLinks[i], OutputLinks[i], "supplier_id",
                                    SupplierMapping)
             /\ \A k \in LinkOtherFields(SurvivingLinks[i]) :
                  k \in DOMAIN OutputLinks[i].d /\ OutputLinks[i].d[k] = SurvivingLinks[i].d[k]
        /\ Has(result, "name") /\ Get(result, "name") = Get(args.product, "name")

C10_Witness ==
    /\ ProductDone
    /\ Has(args.product, "brand_id")
    /\ Get(args.product, "brand_id") = Str("unmapped-brand")
    /\ KeyOf(args.product, "supplier_id", SupplierMapping)
    /\ Len(SourceLinks) = 2
    /\ KeyOf(SourceLinks[1], "supplier_id", SupplierMapping)
    /\ ~KeyOf(SourceLinks[2], "supplier_id", SupplierMapping)
    /\ Len(OutputLinks) = 2
    /\ ~Has(result, "brand_id")

(* the field is in the record with a value other than None *)
NonNull(record, field) == Has(record, field) /\ Get(record, field) # None

(* C11: the output never holds both price_including_tax and                *)
(* price_excluding_tax; when the source holds both with non-null values    *)
(* the output keeps the one the tax_inclusive flag selects, with the       *)
(* source value; when the source holds at least one of them the output     *)
(* holds at least one.                                                     *)
C11_SinglePrice ==
    ProductDone =>
        LET selected == IF args.tax_inclusive THEN "price_including_tax"
                        ELSE "price_excluding_tax"
        IN  /\ ~(Has(result, "price_including_tax") /\ Has(result, "price_excluding_tax"))
            /\ (NonNull(args.product, "price_including_tax")
                    /\ NonNull(args.product, "price_excluding_tax")) =>
                   /\ Has(result, selected)
                   /\ Get(result, selected) = Get(args.product, selected)
            /\ (NonNull(args.product, "price_including_tax")
                    \/ NonNull(args.product, "price_excluding_tax")) =>
                   (Has(result, "price_including_tax") \/ Has(result, "price_excluding_tax"))
            /\ \A field \in {"price_including_tax", "price_excluding_tax"} :
                   Has(result, field) => Get(result, field) = Get(args.product, field)

C11_Witness ==
    /\ ProductDone
    /\ ~args.tax_inclusive
    /\ NonNull(args.product, "price_including_tax")
    /\ NonNull(args.product, "price_excluding_tax")
    /\ Has(result, "price_excluding_tax")
    /\ ~Has(result, "price_including_tax")

(* C12, for products: applying transform_product_for_creation to its own   *)
(* output, with the same tax mode and maps, yields that output again.      *)
C12_ProductIdempotent ==
    ProductDone =>
        transform_product_for_creation(result, args.tax_inclusive,
            args.maps.brand_mapping, args.maps.supplier_mapping) = result

----------------------------------------------------------------------------
(* transform_customer_for_creation *)

CUSTOMER_STRIP_FIELDS ==
    { "id", "version", "created_at", "updated_at", "deleted_at", "customer_code",
      "year_to_date", "balance", "loyalty_balance", "loyalty_email_sent",
      "custom_field_1", "custom_field_2", "custom_field_3", "custom_field_4" }

(* lines 246-255: the loop over customer.items() *)
transform_customer_for_creation(customer) ==
    Restrict(customer,
             {key \in DOMAIN customer.d :
                 /\ key \notin CUSTOMER_STRIP_FIELDS
                 /\ customer.d[key] # None
                 /\ ~(key = "customer_group" /\ customer.d[key].t = "dict")})

(* the customer group of a source customer: left out, null, a nested       *)
(* object, an empty object, or the bare identifier of the group            *)
CustomerGroups ==
    { Absent, None, Rec([id |-> Str("group-123"), name |-> Str("VIP")]), EmptyDict,
      Str("group-123") }

Customers ==
    { MakeDict([id |-> id,
                version |-> version,
                deleted_at |-> deleted_at,
                customer_code |-> customer_code,
                balance |-> balance,
                custom_field_1 |-> custom_field_1,
                first_name |-> first_name,
                email |-> email,
                customer_group |-> customer_group]) :
        id \in {Absent, Str("cust-src-1")},
        version \in {Absent, Int_(4)},
        deleted_at \in {Absent, None},
        customer_code \in {Absent, Str("CUST-001")},
        balance \in {Absent, Int_(0)},
        custom_field_1 \in {Absent, Str("custom1")},
        first_name \in {Absent, None, Str("Jane")},
        email \in {Absent, Str("jane@example.com")},
        customer_group \in CustomerGroups }

InitCustomer ==
    /\ LoggerIdle
    /\ RunIdle
    /\ args \in {[customer |-> customer] : customer \in Customers}
    /\ result = None
    /\ fpc = "ready"

TransformCustomer ==
    /\ fpc = "ready"
    /\ result' = transform_customer_for_creation(args.customer)
    /\ fpc' = "done"
    /\ UNCHANGED <<args, loggerVars, runVars>>

NextCustomer == TransformCustomer

SpecCustomer == InitCustomer /\ [][NextCustomer]_vars

----------------------------------------------------------------------------
(* Properties of transform_customer_for_creation *)

CustomerDone == fpc = "done"

(* the customer half of C12: transform_customer_for_creation applied to    *)
(* its own output returns it unchanged                                     *)
CustomerIdempotent ==
    CustomerDone => transform_customer_for_creation(result) = result

(* the strip-list half of C13 *)
CustomerStripped ==
    CustomerDone => DOMAIN result.d \cap CUSTOMER_STRIP_FIELDS = {}

(* C13: the output of transform_customer_for_creation holds no key of      *)
(* CUSTOMER_STRIP_FIELDS and never holds customer_group, whatever the      *)
(* values of the customer's fields are.                                    *)
C13_StrippedAndNoGroup ==
    CustomerDone =>
        /\ DOMAIN result.d \cap CUSTOMER_STRIP_FIELDS = {}
        /\ ~Has(result, "customer_group")

----------------------------------------------------------------------------
(* map_by_name and map_outlets_by_name *)

(* the call left by raising the exception exc *)
Raised(exc) == [t |-> "raised", x |-> exc]

(* line 322: the index of the destination items by name, from item i on;   *)
(* a later item of the same name replaces an earlier one                   *)
RECURSIVE index_by_name(_, _, _)
index_by_name(dest_items, i, dest_by_name) ==
    IF i > Len(dest_items) THEN dest_by_name
    ELSE LET item == dest_items[i]
         IN  IF Truthy(GetOr(item, "name", None))
             THEN index_by_name(dest_items, i + 1,
                      Put(dest_by_name, Get(item, "name").s, GetOr(item, "id", None)))
             ELSE index_by_name(dest_items, i + 1, dest_by_name)

(* lines 323-327: the loop over the source items *)
RECURSIVE map_items(_, _, _, _)
map_items(source_items, i, mapping, dest_by_name) ==
    IF i > Len(source_items) THEN mapping
    ELSE LET item == source_items[i]
             source_id == GetOr(item, "id", None)
             name == GetOr(item, "name", None)
         IN  IF Truthy(source_id) /\ Truthy(name) /\ name.s \in DOMAIN dest_by_name.d
             THEN map_items(source_items, i + 1,
                      Put(mapping, source_id.s, dest_by_name.d[name.s]), dest_by_name)
             ELSE map_items(source_items, i + 1, mapping, dest_by_name)

map_by_name(source_items, dest_items) ==
    map_items(source_items, 1, EmptyDict, index_by_name(dest_items, 1, EmptyDict))

(* line 273: the dict comprehension over the destination outlets; the      *)
(* subscripts raise KeyError on an outlet without the field                *)
RECURSIVE index_outlets(_, _, _)
index_outlets(dest_outlets, i, dest_by_name) ==
    IF i > Len(dest_outlets) THEN dest_by_name
    ELSE LET outlet == dest_outlets[i]
         IN  IF ~Has(outlet, "name") \/ ~Has(outlet, "id") THEN Raised("KeyError")
             ELSE index_outlets(dest_outlets, i + 1,
                      Put(dest_by_name, Get(outlet, "name").s, Get(outlet, "id")))

(* lines 277-281: the loop over the source outlets *)
RECURSIVE map_outlets(_, _, _, _)
map_outlets(source_outlets, i, mapping, dest_by_name) ==
    IF i > Len(source_outlets) THEN mapping
    ELSE LET outlet == source_outlets[i]
         IN  IF ~Has(outlet, "id") \/ ~Has(outlet, "name") THEN Raised("KeyError")
             ELSE IF Get(outlet, "name").s \in DOMAIN dest_by_name.d
             THEN map_outlets(source_outlets, i + 1,
                      Put(mapping, Get(outlet, "id").s, dest_by_name.d[Get(outlet, "name").s]),
                      dest_by_name)
             ELSE map_outlets(source_outlets, i + 1, mapping, dest_by_name)

map_outlets_by_name(source_outlets, dest_outlets) ==
    LET dest_by_name == index_outlets(dest_outlets, 1, EmptyDict)
    IN  IF dest_by_name.t = "raised" THEN dest_by_name
        ELSE map_outlets(source_outlets, 1, EmptyDict, dest_by_name)

----------------------------------------------------------------------------
(* Calls of map_by_name and map_outlets_by_name on the lists of reference  *)
(* entities the two accounts return                                        *)

MaxRefItems == 2

SourceItemKinds ==
    { Rec([id |-> Str("src-1"), name |-> Str("Main Store")]),
      Rec([id |-> Str("src-2"), name |-> Str("main store")]),
      Rec([id |-> Str("src-3"), name |-> Str("Old Location")]),
      Rec([id |-> Str("src-4"), name |-> Str("")]),
      Rec([name |-> Str("Main Store")]),
      Rec([id |-> Str("src-5")]) }

DestItemKinds ==
    { Rec([id |-> Str("dst-1"), name |-> Str("Main Store")]),
      Rec([id |-> Str("dst-2"), name |-> Str("Warehouse")]),
      Rec([id |-> Str("dst-3"), name |-> Str("")]),
      Rec([name |-> Str("Main Store")]),
      Rec([id |-> Str("dst-4")]) }

InitMapping ==
    /\ LoggerIdle
    /\ RunIdle
    /\ args \in {[function |-> function, source_items |-> source_items,
                  dest_items |-> dest_items] :
                    function \in {"map_by_name", "map_outlets_by_name"},
                    source_items \in SeqUpTo(SourceItemKinds, MaxRefItems),
                    dest_items \in SeqUpTo(DestItemKinds, MaxRefItems)}
    /\ result = None
    /\ fpc = "ready"

MapByName ==
    /\ fpc = "ready"
    /\ args.function = "map_by_name"
    /\ result' = map_by_name(args.source_items, args.dest_items)
    /\ fpc' = "done"
    /\ UNCHANGED <<args, loggerVars, runVars>>

MapOutletsByName ==
    /\ fpc = "ready"
    /\ args.function = "map_outlets_by_name"
    /\ result' = map_outlets_by_name(args.source_items, args.dest_items)
    /\ fpc' = "done"
    /\ UNCHANGED <<args, loggerVars, runVars>>

NextMapping == MapByName \/ MapOutletsByName

SpecMapping == InitMapping /\ [][NextMapping]_vars

----------------------------------------------------------------------------
(* Properties of map_by_name and map_outlets_by_name *)

MapByNameDone == fpc = "done" /\ args.function = "map_by_name"

MappingDone == fpc = "done"

(* the item has the field with a non-empty value *)
NonEmpty(item, field) == Has(item, field) /\ Truthy(Get(item, field))

(* source item i and destination item j have the same name *)
SameName(i, j) ==
    /\ Has(args.source_items[i], "name")
    /\ Has(args.dest_items[j], "name")
    /\ Get(args.source_items[i], "name") = Get(args.dest_items[j], "name")

(* C14: every entry s -> d of map_by_name's result has a source item with  *)
(* id s and a destination item with the non-null id d whose names are the  *)
(* same string, and every source item with a non-empty id and name whose   *)
(* name is the name of a destination item has an entry; the result is      *)
(* empty when either list is empty.                                        *)
C14_SoundAndComplete ==
    MapByNameDone =>
        /\ \A s \in DOMAIN result.d :
             /\ result.d[s] # None
             /\ \E i \in 1..Len(args.source_items), j \in 1..Len(args.dest_items) :
                  /\ GetOr(args.source_items[i], "id", None) = Str(s)
                  /\ GetOr(args.dest_items[j], "id", None) = result.d[s]
                  /\ SameName(i, j)
        /\ \A i \in 1..Len(args.source_items) :
             (/\ NonEmpty(args.source_items[i], "id")
              /\ NonEmpty(args.source_items[i], "name")
              /\ \E j \in 1..Len(args.dest_items) : SameName(i, j))
                 => Get(args.source_items[i], "id").s \in DOMAIN result.d
        /\ (args.source_items = <<>> \/ args.dest_items = <<>>) => result = EmptyDict

(* the items of a list that have both an id and a name field *)
WithIdAndName(items) ==
    LET Complete_(item) == Has(item, "id") /\ Has(item, "name")
    IN  SelectSeq(items, Complete_)

(* C15: building a map never fails on an item without an id or a name      *)
(* field; the result is the one the lists without such items give.         *)
C15_MissingFieldsSkipped ==
    MappingDone =>
        /\ result.t # "raised"
        /\ result = IF args.function = "map_by_name"
                    THEN map_by_name(WithIdAndName(args.source_items),
                                     WithIdAndName(args.dest_items))
                    ELSE map_outlets_by_name(WithIdAndName(args.source_items),
                                             WithIdAndName(args.dest_items))

----------------------------------------------------------------------------
(* transform_inventory_for_destination *)

(* the record built with the outlet of the source account *)
inventory_record_source_outlet(record, outlet_mapping) ==
    Rec([outlet_id |-> GetOr(record, "outlet_id", None),
         current_amount |-> GetOr(record, "current_amount", Int_(0))])

(* lines 301-304: the record appended for a stock record of a mapped outlet *)
inventory_record(record, outlet_mapping) ==
    Rec([outlet_id |-> Lookup(outlet_mapping, GetOr(record, "outlet_id", None)),
         current_amount |-> GetOr(record, "current_amount", Int_(0))])

(* lines 298-305: the loop over the stock records *)
RECURSIVE transform_records(_, _, _, _)
transform_records(inventory, i, transformed, outlet_mapping) ==
    IF i > Len(inventory) THEN transformed
    ELSE LET record == inventory[i]
             source_outlet_id == GetOr(record, "outlet_id", None)
         IN  IF In(source_outlet_id, outlet_mapping)
             THEN transform_records(inventory, i + 1,
                      Append(transformed, inventory_record(record, outlet_mapping)),
                      outlet_mapping)
             ELSE transform_records(inventory, i + 1, transformed, outlet_mapping)

transform_inventory_for_destination(inventory, outlet_mapping) ==
    List(transform_records(inventory, 1, <<>>, outlet_mapping))

MaxRecords == 3

StockRecordKinds ==
    { Rec([outlet_id |-> Str("outlet-src-1"), current_amount |-> Int_(5),
           product_id |-> Str("prod-src-1")]),
      Rec([outlet_id |-> Str("outlet-src-2"), current_amount |-> Int_(0)]),
      Rec([outlet_id |-> Str("outlet-src-1")]),
      Rec([outlet_id |-> Str("outlet-src-1"), current_amount |-> None]),
      Rec([outlet_id |-> Str("unmapped-outlet"), current_amount |-> Int_(3)]),
      Rec([current_amount |-> Int_(7)]) }

(* the outlet maps: both outlets matched, one matched, none matched *)
OutletMaps ==
    { Rec([k \in {"outlet-src-1", "outlet-src-2"} |->
             IF k = "outlet-src-1" THEN Str("outlet-dst-1") ELSE Str("outlet-dst-2")]),
      Rec([k \in {"outlet-src-1"} |-> Str("outlet-dst-1")]),
      EmptyDict }

InitInventory ==
    /\ LoggerIdle
    /\ RunIdle
    /\ args \in {[inventory |-> inventory, outlet_mapping |-> outlet_mapping] :
                    inventory \in SeqUpTo(StockRecordKinds, MaxRecords),
                    outlet_mapping \in OutletMaps}
    /\ result = None
    /\ fpc = "ready"

TransformInventory ==
    /\ fpc = "ready"
    /\ result' = transform_inventory_for_destination(args.inventory, args.outlet_mapping)
    /\ fpc' = "done"
    /\ UNCHANGED <<args, loggerVars, runVars>>

NextInventory == TransformInventory

SpecInventory == InitInventory /\ [][NextInventory]_vars

----------------------------------------------------------------------------
(* Properties of transform_inventory_for_destination *)

InventoryDone == fpc = "done"

(* the source stock records whose outlet is mapped, in source order *)
MappedRecords ==
    LET Qualifies(record) == KeyOf(record, "outlet_id", args.outlet_mapping)
    IN  SelectSeq(args.inventory, Qualifies)

(* C16: the result holds, in source order, one record for each source      *)
(* stock record whose outlet_id is a key of the outlet map, made of the    *)
(* mapped outlet_id and of the source current_amount, 0 when the source    *)
(* record has no current_amount; the other records are left out.           *)
C16_InventoryRecords ==
    InventoryDone =>
        /\ Len(result.l) = Len(MappedRecords)
        /\ \A i \in 1..Len(result.l) :
             /\ DOMAIN result.l[i].d = {"outlet_id", "current_amount"}
             /\ Get(result.l[i], "outlet_id") =
                    Mapped(MappedRecords[i], "outlet_id", args.outlet_mapping)
             /\ Get(result.l[i], "current_amount") =
                    IF Has(MappedRecords[i], "current_amount")
                    THEN Get(MappedRecords[i], "current_amount")
                    ELSE Int_(0)

C16_Witness ==
    /\ InventoryDone
    /\ Len(args.inventory) = 3
    /\ ~KeyOf(args.inventory[1], "outlet_id", args.outlet_mapping)
    /\ KeyOf(args.inventory[2], "outlet_id", args.outlet_mapping)
    /\ ~Has(args.inventory[2], "current_amount")
    /\ KeyOf(args.inventory[3], "outlet_id", args.outlet_mapping)
    /\ Get(args.inventory[3], "outlet_id") # Get(args.inventory[2], "outlet_id")
    /\ Len(result.l) = 2
    /\ Get(result.l[1], "current_amount") = Int_(0)

----------------------------------------------------------------------------
(* classify_error *)

(* a str value as the sequence of its characters *)
Chars(c) == [t |-> "chars", c |-> c]

UpperCase == <<"A", "B", "C", "D", "E", "F", "G", "H", "I", "J", "K", "L", "M", "N", "O", "P", "Q", "R", "S", "T", "U", "V", "W", "X", "Y", "Z">>

LowerCase == <<"a", "b", "c", "d", "e", "f", "g", "h", "i", "j", "k", "l", "m", "n", "o", "p", "q", "r", "s", "t", "u", "v", "w", "x", "y", "z">>

(* str.lower(), character by character *)
lower(c) ==
    [i \in 1..Len(c) |->
        IF \E n \in 1..Len(UpperCase) : UpperCase[n] = c[i]
        THEN LowerCase[CHOOSE n \in 1..Len(UpperCase) : UpperCase[n] = c[i]]
        ELSE c[i]]

(* sub in c *)
Contains(sub, c) ==
    \E i \in 1..(Len(c) - Len(sub) + 1) : SubSeq(c, i, i + Len(sub) - 1) = sub

already_exists == <<"a", "l", "r", "e", "a", "d", "y", " ", "e", "x", "i", "s", "t", "s">>

duplicate == <<"d", "u", "p", "l", "i", "c", "a", "t", "e">>

not_found == <<"n", "o", "t", " ", "f", "o", "u", "n", "d">>

(* the 400 and 422 statuses tested before the patterns of the message *)
classify_error_status_first(status_code, error_message) ==
    IF status_code = None THEN "unknown"
    ELSE IF status_code.n = 403 THEN "permission"
    ELSE IF status_code.n = 401 THEN "permission"
    ELSE IF status_code.n >= 500 THEN "server"
    ELSE LET msg_lower == IF error_message.t = "chars" /\ error_message.c # <<>>
                          THEN lower(error_message.c) ELSE <<>>
         IN  IF status_code.n \in {400, 422} THEN "validation"
             ELSE IF Contains(already_exists, msg_lower) \/ Contains(duplicate, msg_lower)
             THEN "duplicate"
             ELSE IF Contains(not_found, msg_lower) THEN "not_found"
             ELSE IF status_code.n = 404 THEN "not_found"
             ELSE "unknown"

classify_error(status_code, error_message) ==
    IF status_code = None THEN "unknown"
    ELSE IF status_code.n = 403 THEN "permission"
    ELSE IF status_code.n = 401 THEN "permission"
    ELSE IF status_code.n >= 500 THEN "server"
    ELSE LET msg_lower == IF error_message.t = "chars" /\ error_message.c # <<>>
                          THEN lower(error_message.c) ELSE <<>>
         IN  IF Contains(already_exists, msg_lower) \/ Contains(duplicate, msg_lower)
             THEN "duplicate"
             ELSE IF Contains(not_found, msg_lower) THEN "not_found"
             ELSE IF status_code.n \in {400, 422} THEN "validation"
             ELSE IF status_code.n = 404 THEN "not_found"
             ELSE "unknown"

(* the status codes of a failed call, None when no response was received *)
StatusCodes ==
    {None} \cup {Int_(n) : n \in {400, 401, 403, 404, 409, 422, 429, 499, 500, 502, 503}}

ErrorMessages ==
    { None, Chars(<<>>),
      Chars(<<"P", "r", "o", "d", "u", "c", "t", " ", "n", "o", "t", " ", "f", "o", "u", "n", "d">>),
      Chars(<<"N", "o", "t", " ", "F", "o", "u", "n", "d">>),
      Chars(<<"S", "K", "U", " ", "a", "l", "r", "e", "a", "d", "y", " ", "e", "x", "i", "s", "t", "s">>),
      Chars(<<"D", "U", "P", "L", "I", "C", "A", "T", "E", " ", "h", "a", "n", "d", "l", "e">>),
      Chars(<<"D", "u", "p", "l", "i", "c", "a", "t", "e", ":", " ", "b", "r", "a", "n", "d", " ", "N", "o", "t", " ", "F", "o", "u", "n", "d">>),
      Chars(<<"U", "n", "k", "n", "o", "w", "n", " ", "e", "r", "r", "o", "r">>),
      Chars(<<"B", "a", "d", " ", "r", "e", "q", "u", "e", "s", "t">>) }

InitClassify ==
    /\ LoggerIdle
    /\ RunIdle
    /\ args \in {[status_code |-> status_code, error_message |-> error_message] :
                    status_code \in StatusCodes, error_message \in ErrorMessages}
    /\ result = None
    /\ fpc = "ready"

ClassifyError ==
    /\ fpc = "ready"
    /\ result' = Str(classify_error(args.status_code, args.error_message))
    /\ fpc' = "done"
    /\ UNCHANGED <<args, loggerVars, runVars>>

NextClassify == ClassifyError

SpecClassify == InitClassify /\ [][NextClassify]_vars

----------------------------------------------------------------------------
(* Properties of classify_error *)

ClassifyDone == fpc = "done"

(* the message in lower case, empty when there is none *)
MessageLower ==
    IF args.error_message = None THEN <<>> ELSE lower(args.error_message.c)

(* the condition of each category *)
CategoryHolds(category) ==
    LET status == args.status_code.n
    IN  CASE category = "permission" -> status \in {401, 403}
          [] category = "server" -> status >= 500
          [] category = "duplicate" ->
                 Contains(already_exists, MessageLower) \/ Contains(duplicate, MessageLower)
          [] category = "not_found" -> Contains(not_found, MessageLower) \/ status = 404
          [] category = "validation" -> status \in {400, 422}
          [] category = "unknown" -> TRUE

CategoryOrder == <<"permission", "server", "duplicate", "not_found", "validation", "unknown">>

(* C18: classify_error returns unknown when no status code is available,   *)
(* and otherwise the first category, in the order permission, server,      *)
(* duplicate, not_found, validation, unknown, whose condition holds.       *)
C18_FirstCategory ==
    ClassifyDone =>
        IF args.status_code = None THEN result = Str("unknown")
        ELSE \E n \in 1..Len(CategoryOrder) :
               /\ result = Str(CategoryOrder[n])
               /\ CategoryHolds(CategoryOrder[n])
               /\ \A m \in 1..(n - 1) : ~CategoryHolds(CategoryOrder[m])

C18_Witness ==
    /\ ClassifyDone
    /\ args.status_code = Int_(422)
    /\ args.error_message # None
    /\ Contains(duplicate, MessageLower)
    /\ Contains(not_found, MessageLower)
    /\ args.error_message.c # MessageLower
    /\ result = Str("duplicate")

----------------------------------------------------------------------------
(* run_clone: the two accounts                                             *)
(*                                                                         *)
(* The destination account answers a create call by creating the record    *)
(* and returning its identifier, by returning a body without identifier,   *)
(* or by rejecting the call.  A str is held as its characters where the    *)
(* code applies str.lower to it.                                           *)

(* the str made of the characters c *)
RECURSIVE Join(_)
Join(c) == IF c = <<>> THEN "" ELSE Head(c) \o Join(Tail(c))

NIKE_MIXED == <<"N", "i", "k", "e">>

NIKE_UPPER == <<"N", "I", "K", "E">>

NIKE_LOWER == <<"n", "i", "k", "e">>

ACME_MIXED == <<"A", "c", "m", "e">>

ACME_UPPER == <<"A", "C", "M", "E">>

SourceBrands ==
    << Rec([id |-> Str("brand-src-1"), name |-> Chars(NIKE_MIXED),
            description |-> Str("Shoes")]),
       Rec([id |-> Str("brand-src-2"), name |-> Chars(NIKE_UPPER)]) >>

SourceSuppliers ==
    << Rec([id |-> Str("sup-src-1"), name |-> Chars(ACME_MIXED), version |-> Int_(3),
            description |-> None]) >>

SourceProducts ==
    << Rec([id |-> Str("prod-src-1"), version |-> Int_(7), name |-> Str("Widget"),
            sku |-> Str("SKU-1"), brand_id |-> Str("brand-src-1"),
            supplier_id |-> Str("sup-src-1"), price_including_tax |-> Int_(11),
            price_excluding_tax |-> Int_(10), active |-> Bool(TRUE)]),
       Rec([id |-> Str("prod-src-2"), name |-> Str("Gadget"), sku |-> Str("SKU-2"),
            brand_id |-> Str("brand-src-2"), description |-> None]) >>

(* get_product_inventory: the stock records of each product, by sku *)
SourceInventory ==
    Rec([k \in {"SKU-1"} |->
           List(<<Rec([outlet_id |-> Str("outlet-src-1"), current_amount |-> Int_(5)]),
                  Rec([outlet_id |-> Str("unmapped-outlet"), current_amount |-> Int_(2)])>>)])

SourceCustomers ==
    << Rec([id |-> Str("cust-src-1"), version |-> Int_(2), first_name |-> Str("Jane"),
            last_name |-> Str("Doe"), email |-> Str("jane@example.com"),
            customer_code |-> Str("CUST-001"), balance |-> Int_(0)]) >>

SourceSales ==
    << Rec([id |-> Str("sale-src-1"), receipt_number |-> Str("R-1"), status |-> Str("OPEN"),
            register_id |-> Str("reg-src-1"), user_id |-> Str("user-src-1"),
            customer_id |-> Str("cust-src-1"), sale_date |-> Str("2024-01-15"),
            total_price |-> Int_(22),
            register_sale_products |->
                List(<<Rec([product_id |-> Str("prod-src-1"), quantity |-> Int_(2),
                            price |-> Int_(11), tax_id |-> Str("tax-src-1")])>>),
            register_sale_payments |->
                List(<<Rec([payment_type_id |-> Str("pt-src-1"), amount |-> Int_(22)])>>)]),
       Rec([id |-> Str("sale-src-2"), receipt_number |-> Str("R-2"),
            register_id |-> Str("reg-src-1"), user_id |-> Str("user-src-1"),
            register_sale_products |->
                List(<<Rec([product_id |-> Str("prod-src-2"), quantity |-> Int_(1)])>>)]) >>

(* a reference entity of the source account and the one of the same name   *)
(* at the destination                                                      *)
SourceRef(kind) == <<Rec([id |-> Str(kind \o "-src-1"), name |-> Str("Main " \o kind)])>>

DestRef(kind) == <<Rec([id |-> Str(kind \o "-dst-1"), name |-> Str("Main " \o kind)])>>

SourceAccount ==
    [ brands |-> SourceBrands, suppliers |-> SourceSuppliers, products |-> SourceProducts,
      inventory |-> SourceInventory, customers |-> SourceCustomers, sales |-> SourceSales,
      outlets |-> SourceRef("outlet"), registers |-> SourceRef("reg"),
      users |-> SourceRef("user"), taxes |-> SourceRef("tax"),
      payment_types |-> SourceRef("pt") ]

(* the destination account before the run: with or without a brand and a   *)
(* supplier of the names of the source, with or without the register and   *)
(* with or without the user of the source                                  *)
DestAccount(existing, registers, users) ==
    [ brands |-> IF existing
                 THEN <<Rec([id |-> Str("brand-dst-0"), name |-> Chars(NIKE_LOWER)])>>
                 ELSE <<>>,
      suppliers |-> IF existing
                    THEN <<Rec([id |-> Str("sup-dst-0"), name |-> Chars(ACME_UPPER)])>>
                    ELSE <<>>,
      products |-> <<>>, customers |-> <<>>, sales |-> <<>>, inventory |-> <<>>,
      outlets |-> DestRef("outlet"),
      registers |-> IF registers THEN DestRef("reg") ELSE <<>>,
      users |-> IF users THEN DestRef("user") ELSE <<>>,
      taxes |-> DestRef("tax"), payment_types |-> DestRef("pt"),
      created |-> 0,
      last_status_code |-> None, last_error |-> None, last_response_body |-> None ]

(* the answers of the destination to a create call *)
CreateOutcomes == {"created", "no_id", "rejected"}

(* the identifier the destination gives to the next record it creates *)
NewId(client) == Str("dst-" \o ToString(client.created + 1))

(* what a create call returns *)
CreateResult(client, outcome) ==
    CASE outcome = "created" -> Rec([id |-> NewId(client)])
      [] outcome = "no_id" -> Rec([status |-> Str("accepted")])
      [] outcome = "rejected" -> None

DuplicateMessage == Chars(<<"N", "a", "m", "e", " ", "a", "l", "r", "e", "a", "d", "y", " ", "e", "x", "i", "s", "t", "s">>)

(* the destination after a create call for payload in the collection kind, *)
(* answered with outcome                                                   *)
AfterCreate(client, kind, payload, outcome) ==
    CASE outcome = "created" ->
             [client EXCEPT ![kind] = Append(@, Put(payload, "id", NewId(client))),
                            !.created = @ + 1,
                            !.last_status_code = Int_(201),
                            !.last_error = None,
                            !.last_response_body = Rec([id |-> NewId(client)])]
      [] outcome = "no_id" ->
             [client EXCEPT !.last_status_code = Int_(200),
                            !.last_error = None,
                            !.last_response_body = Rec([status |-> Str("accepted")])]
      [] outcome = "rejected" ->
             [client EXCEPT !.last_status_code = Int_(422),
                            !.last_error = DuplicateMessage,
                            !.last_response_body = Rec([error |-> Str("rejected")])]

(* x or dflt *)
Or(x, dflt) == IF Truthy(x) THEN x ELSE dflt

(* dest_client.last_error or "Unknown error" *)
ErrorMessage(client) ==
    IF client.last_error = None \/ client.last_error.c = <<>>
    THEN Chars(<<"U", "n", "k", "n", "o", "w", "n", " ", "e", "r", "r", "o", "r">>)
    ELSE client.last_error

----------------------------------------------------------------------------
(* run_clone as a state machine: one step per source record of a stage     *)

(* the stages in the order run_clone calls them, the stages that are       *)
(* switched off left out                                                   *)
SalesOrLater(f) == IF f.clone_sales_flag THEN "sales" ELSE "finish"

CustomersOrLater(f) == IF f.clone_customers_flag THEN "customers" ELSE SalesOrLater(f)

FirstStage(f) == IF f.clone_products_flag THEN "brands" ELSE CustomersOrLater(f)

(* the supplier stage run after the product stage *)
StageAfter_products_first(stage, f) ==
    CASE stage = "brands" -> "products"
      [] stage = "products" -> "suppliers"
      [] stage = "suppliers" -> CustomersOrLater(f)
      [] stage = "customers" -> SalesOrLater(f)
      [] stage = "sales" -> "finish"

StageAfter(stage, f) ==
    CASE stage = "brands" -> "suppliers"
      [] stage = "suppliers" -> "products"
      [] stage = "products" -> CustomersOrLater(f)
      [] stage = "customers" -> SalesOrLater(f)
      [] stage = "sales" -> "finish"

(* a call made on the destination (kind create or update) or on the logger *)
(* (kind log)                                                              *)
Event(stage, kind, source_id, payload, outcome) ==
    [stage |-> stage, kind |-> kind, source_id |-> source_id, payload |-> payload,
     outcome |-> outcome]

NoMaps ==
    [ outlet_mapping |-> EmptyDict, product_mapping |-> EmptyDict,
      customer_mapping |-> EmptyDict, register_mapping |-> EmptyDict,
      user_mapping |-> EmptyDict, tax_mapping |-> EmptyDict,
      payment_type_mapping |-> EmptyDict ]

RunFlags ==
    [ clone_products_flag : BOOLEAN, clone_customers_flag : BOOLEAN,
      clone_sales_flag : BOOLEAN, include_inventory : BOOLEAN,
      dest_tax_inclusive : {TRUE} ]

(* run_clone entered: the logger is constructed, nothing is cloned yet *)
InitRun ==
    /\ LoggerIdle
    /\ args = <<>>
    /\ result = None
    /\ fpc = "none"
    /\ flags \in RunFlags
    /\ source_client = SourceAccount
    /\ dest_client \in {DestAccount(existing, registers, TRUE) :
                           existing \in BOOLEAN, registers \in BOOLEAN}
                       \cup {DestAccount(TRUE, TRUE, FALSE)}
    /\ rpc = FirstStage(flags)
    /\ idx = 0
    /\ dest_names = EmptyDict
    /\ run_brand_mapping = EmptyDict
    /\ run_supplier_mapping = EmptyDict
    /\ stage_maps = NoMaps
    /\ inventory_counts = [inventory_updated |-> 0, inventory_failed |-> 0]
    /\ trace = <<>>

(* the logger after n calls that left the document d *)
Logged(d, n) ==
    /\ data' = d
    /\ file' = Written(d)
    /\ clock' = clock + n
    /\ UNCHANGED <<lpc, ncalls, last, calls, returned>>

(* the stage left without a record attempted *)
StageSkipped(stage) ==
    /\ rpc' = StageAfter(stage, flags)
    /\ idx' = 0

(* the loop of a stage over n records moves to the next record, or ends *)
Advance(stage, n) ==
    IF idx < n
    THEN idx' = idx + 1 /\ rpc' = rpc
    ELSE idx' = 0 /\ rpc' = StageAfter(stage, flags)

(* lines 539, 626: the lower-case names of the destination items *)
RECURSIVE lower_names(_, _, _)
lower_names(items, i, names) ==
    IF i > Len(items) THEN names
    ELSE lower_names(items, i + 1,
             Put(names, lower(GetOr(items[i], "name", Chars(<<>>)).c),
                 GetOr(items[i], "id", None)))

(* the log call of a failed create left out *)
LogCreateFailure_dropped(d, now, entity_type, source_id, client, request_payload, identifier) ==
    d

(* the log call of a create that returned no usable result *)
LogCreateFailure(d, now, entity_type, source_id, client, request_payload, identifier) ==
    log_failure(d, now, entity_type, source_id, client.last_status_code,
                Join(ErrorMessage(client).c),
                classify_error(client.last_status_code, ErrorMessage(client)),
                request_payload, client.last_response_body, identifier, None).data

(* clone_brands and clone_suppliers up to the loop: the source items are   *)
(* fetched, and the names of the destination items read once               *)
StartOwned(stage, kind) ==
    /\ rpc = stage
    /\ idx = 0
    /\ \E error \in BOOLEAN :
         IF error \/ source_client[kind] = <<>>
         THEN StageSkipped(stage) /\ UNCHANGED dest_names
         ELSE /\ dest_names' = lower_names(dest_client[kind], 1, EmptyDict)
              /\ idx' = 1
              /\ rpc' = rpc
    /\ UNCHANGED <<flags, source_client, dest_client, run_brand_mapping, run_supplier_mapping,
                   stage_maps, inventory_counts, trace, loggerVars, transformVars>>

(* lines 551-553: the payload of a brand *)
brand_data(brand, name) ==
    IF Truthy(GetOr(brand, "description", None))
    THEN Rec([name |-> name, description |-> Get(brand, "description")])
    ELSE Rec([name |-> name])

(* lines 640-643: the payload of a supplier *)
supplier_data(supplier, name) ==
    Dict([k \in {j \in DOMAIN supplier.d \cap {"name", "description", "contact"} :
                    supplier.d[j] # None} |->
            IF k = "name" THEN name ELSE supplier.d[k]])

(* the map started afresh with the entry *)
MapEntry_fresh(mapping, source_id, dest_id) == Put(EmptyDict, source_id.s, dest_id)

(* lines 543, 566: brand_mapping[source_id] = the destination identifier *)
MapEntry(mapping, source_id, dest_id) == Put(mapping, source_id.s, dest_id)

(* one pass of the loop of clone_brands (stage brands) or clone_suppliers  *)
(* (stage suppliers) over item, with mapping the map of the stage; the     *)
(* result is the map after the pass                                        *)
CloneOwned(stage, item, payload, mapping, mapping_after) ==
    LET source_id == GetOr(item, "id", None)
        name == GetOr(item, "name", Chars(<<>>))
        identifier == Str(Join(name.c))
        sent == Put(payload, "name", identifier)
    IN  IF lower(name.c) \in DOMAIN dest_names.d
        THEN /\ mapping_after = MapEntry(mapping, source_id, dest_names.d[lower(name.c)])
             /\ UNCHANGED <<dest_client, trace, loggerVars>>
        ELSE \E outcome \in CreateOutcomes :
               LET create_result == CreateResult(dest_client, outcome)
                   client == AfterCreate(dest_client, stage, payload, outcome)
               IN  /\ dest_client' = client
                   /\ IF create_result # None /\ Truthy(GetOr(create_result, "id", None))
                      THEN /\ mapping_after = MapEntry(mapping, source_id, Get(create_result, "id"))
                           /\ Logged(log_success(data, Timestamp(clock), stage, source_id,
                                         Get(create_result, "id"),
                                         Or(client.last_status_code, Int_(200)),
                                         identifier, None).data, 1)
                           /\ trace' = trace \o
                                  << Event(stage, "create", source_id, sent, outcome),
                                     Event(stage, "log", source_id, None, "success") >>
                      ELSE /\ mapping_after = mapping
                           /\ Logged(LogCreateFailure(data, Timestamp(clock), stage, source_id,
                                         client, sent, identifier), 1)
                           /\ trace' = trace \o
                                  << Event(stage, "create", source_id, sent, outcome),
                                     Event(stage, "log", source_id, None, "failed") >>

StartBrands ==
    /\ rpc = "brands"
    /\ StartOwned("brands", "brands")

CloneBrand ==
    /\ rpc = "brands"
    /\ idx >= 1
    /\ LET brand == source_client.brands[idx]
       IN  CloneOwned("brands", brand, brand_data(brand, GetOr(brand, "name", Chars(<<>>))),
                      run_brand_mapping, run_brand_mapping')
    /\ Advance("brands", Len(source_client.brands))
    /\ UNCHANGED <<flags, source_client, dest_names, run_supplier_mapping, stage_maps,
                   inventory_counts, transformVars>>

StartSuppliers ==
    /\ rpc = "suppliers"
    /\ StartOwned("suppliers", "suppliers")

CloneSupplier ==
    /\ rpc = "suppliers"
    /\ idx >= 1
    /\ LET supplier == source_client.suppliers[idx]
       IN  CloneOwned("suppliers", supplier,
                      supplier_data(supplier, GetOr(supplier, "name", Chars(<<>>))),
                      run_supplier_mapping, run_supplier_mapping')
    /\ Advance("suppliers", Len(source_client.suppliers))
    /\ UNCHANGED <<flags, source_client, dest_names, run_brand_mapping, stage_maps,
                   inventory_counts, transformVars>>

(* update_product_inventory: the destination after the call *)
AfterUpdate(client, new_id, dest_inventory, ok) ==
    IF ok
    THEN [client EXCEPT !.inventory = Append(@, Rec([product_id |-> new_id,
                                                       inventory |-> dest_inventory])),
                        !.last_status_code = Int_(200),
                        !.last_error = None,
                        !.last_response_body = Rec([status |-> Str("updated")])]
    ELSE [client EXCEPT !.last_status_code = Int_(500),
                        !.last_error = None,
                        !.last_response_body = None]

(* clone_products up to the loop: lines 714-726 *)
StartProducts ==
    /\ rpc = "products"
    /\ idx = 0
    /\ \E error \in BOOLEAN :
         IF error \/ source_client.products = <<>>
         THEN StageSkipped("products") /\ UNCHANGED stage_maps
         ELSE /\ stage_maps' =
                    [stage_maps EXCEPT !.outlet_mapping =
                        IF flags.include_inventory /\ Truthy(source_client.inventory)
                        THEN map_outlets_by_name(source_client.outlets, dest_client.outlets)
                        ELSE EmptyDict]
              /\ idx' = 1
              /\ rpc' = rpc
    /\ UNCHANGED <<flags, source_client, dest_client, dest_names, run_brand_mapping,
                   run_supplier_mapping, inventory_counts, trace, loggerVars, transformVars>>

(* lines 776-782: the condition under which the inventory of a created     *)
(* product is sent                                                         *)
HasInventory(new_id, sku) ==
    /\ flags.include_inventory
    /\ Truthy(new_id)
    /\ Truthy(sku)
    /\ Has(source_client.inventory, sku.s)
    /\ Truthy(stage_maps.outlet_mapping)

(* lines 746-830: one pass of the loop of clone_products *)
CloneProduct ==
    /\ rpc = "products"
    /\ idx >= 1
    /\ LET product == source_client.products[idx]
           transformed == transform_product_for_creation(product, flags.dest_tax_inclusive,
                              run_brand_mapping, run_supplier_mapping)
           source_id == GetOr(product, "id", None)
           sku == GetOr(product, "sku", None)
       IN  \E outcome \in CreateOutcomes :
             LET create_result == CreateResult(dest_client, outcome)
                 client == AfterCreate(dest_client, "products", transformed, outcome)
                 created == Event("products", "create", source_id, transformed, outcome)
             IN  IF Truthy(create_result)
                 THEN LET new_id == GetOr(create_result, "id", None)
                          d1 == log_success(data, Timestamp(clock), "products", source_id,
                                    new_id, Or(client.last_status_code, Int_(201)),
                                    sku, None).data
                          logged == Event("products", "log", source_id, None, "success")
                          dest_inventory ==
                              transform_inventory_for_destination(
                                  Get(source_client.inventory, sku.s).l,
                                  stage_maps.outlet_mapping)
                      IN  IF HasInventory(new_id, sku) /\ Truthy(dest_inventory)
                          THEN \E ok \in BOOLEAN :
                                 LET client2 == AfterUpdate(client, new_id, dest_inventory, ok)
                                     updated == Event("products", "update", source_id,
                                                      dest_inventory,
                                                      IF ok THEN "updated" ELSE "rejected")
                                 IN  /\ dest_client' = client2
                                     /\ IF ok
                                        THEN /\ inventory_counts' =
                                                  [inventory_counts EXCEPT
                                                      !.inventory_updated = @ + 1]
                                             /\ Logged(log_success(d1, Timestamp(clock + 1),
                                                    "inventory", source_id, new_id,
                                                    Or(client2.last_status_code, Int_(200)),
                                                    sku, None).data, 2)
                                             /\ trace' = trace \o
                                                  << created, logged, updated,
                                                     Event("products", "log", source_id, None,
                                                           "success") >>
                                        ELSE /\ inventory_counts' =
                                                  [inventory_counts EXCEPT
                                                      !.inventory_failed = @ + 1]
                                             /\ Logged(LogCreateFailure(d1,
                                                    Timestamp(clock + 1), "inventory",
                                                    source_id, client2, dest_inventory,
                                                    sku), 2)
                                             /\ trace' = trace \o
                                                  << created, logged, updated,
                                                     Event("products", "log", source_id, None,
                                                           "failed") >>
                          ELSE /\ dest_client' = client
                               /\ Logged(d1, 1)
                               /\ trace' = trace \o <<created, logged>>
                               /\ UNCHANGED inventory_counts
                 ELSE /\ dest_client' = client
                      /\ Logged(LogCreateFailure(data, Timestamp(clock), "products", source_id,
                                    client, transformed, sku), 1)
                      /\ trace' = trace \o
                             <<created, Event("products", "log", source_id, None, "failed")>>
                      /\ UNCHANGED inventory_counts
    /\ Advance("products", Len(source_client.products))
    /\ UNCHANGED <<flags, source_client, dest_names, run_brand_mapping, run_supplier_mapping,
                   stage_maps, transformVars>>

(* clone_customers up to the loop: lines 857-860 *)
StartCustomers ==
    /\ rpc = "customers"
    /\ idx = 0
    /\ \E error \in BOOLEAN :
         IF error \/ source_client.customers = <<>>
         THEN StageSkipped("customers")
         ELSE idx' = 1 /\ rpc' = rpc
    /\ UNCHANGED <<flags, source_client, dest_client, dest_names, run_brand_mapping,
                   run_supplier_mapping, stage_maps, inventory_counts, trace, loggerVars,
                   transformVars>>

(* a create call for a transformed record and the log call that follows it *)
(* (clone_customers lines 876-909, clone_sales lines 1053-1088)            *)
CreateAndLog(stage, source_id, transformed, identifier) ==
    \E outcome \in CreateOutcomes :
       LET create_result == CreateResult(dest_client, outcome)
           client == AfterCreate(dest_client, stage, transformed, outcome)
           created == Event(stage, "create", source_id, transformed, outcome)
       IN  /\ dest_client' = client
           /\ IF Truthy(create_result)
              THEN /\ Logged(log_success(data, Timestamp(clock), stage, source_id,
                                 GetOr(create_result, "id", None),
                                 Or(client.last_status_code, Int_(201)),
                                 identifier, None).data, 1)
                   /\ trace' = trace \o
                          <<created, Event(stage, "log", source_id, None, "success")>>
              ELSE /\ Logged(LogCreateFailure(data, Timestamp(clock), stage, source_id, client,
                                 transformed, identifier), 1)
                   /\ trace' = trace \o
                          <<created, Event(stage, "log", source_id, None, "failed")>>

(* lines 868-911: one pass of the loop of clone_customers *)
CloneCustomer ==
    /\ rpc = "customers"
    /\ idx >= 1
    /\ LET customer == source_client.customers[idx]
       IN  CreateAndLog("customers", GetOr(customer, "id", None),
                        transform_customer_for_creation(customer),
                        GetOr(customer, "email", None))
    /\ Advance("customers", Len(source_client.customers))
    /\ UNCHANGED <<flags, source_client, dest_names, run_brand_mapping, run_supplier_mapping,
                   stage_maps, inventory_counts, transformVars>>

(* the map that sends every logged source identifier to itself *)
RECURSIVE results_mapping_identity(_, _, _)
results_mapping_identity(entries, i, mapping) ==
    IF i > Len(entries) THEN mapping
    ELSE IF Truthy(GetOr(entries[i], "source_id", None))
         THEN results_mapping_identity(entries, i + 1,
                  Put(mapping, Get(entries[i], "source_id").s, Get(entries[i], "source_id")))
         ELSE results_mapping_identity(entries, i + 1, mapping)

(* run_clone lines 1169-1180: the map from source to destination           *)
(* identifiers read from the results of the logger                         *)
RECURSIVE results_mapping(_, _, _)
results_mapping(entries, i, mapping) ==
    IF i > Len(entries) THEN mapping
    ELSE IF Truthy(GetOr(entries[i], "source_id", None))
            /\ Truthy(GetOr(entries[i], "new_id", None))
         THEN results_mapping(entries, i + 1,
                  Put(mapping, Get(entries[i], "source_id").s, Get(entries[i], "new_id")))
         ELSE results_mapping(entries, i + 1, mapping)

(* the six maps of clone_sales: the product and customer maps from the     *)
(* results of the logger, the others by name (lines 979-993)               *)
SaleMapsOf(logger_results) ==
    [ outlet_mapping |-> stage_maps.outlet_mapping,
      product_mapping |-> results_mapping(Get(logger_results, "products").l, 1, EmptyDict),
      customer_mapping |-> results_mapping(Get(logger_results, "customers").l, 1, EmptyDict),
      register_mapping |-> map_by_name(source_client.registers, dest_client.registers),
      user_mapping |-> map_by_name(source_client.users, dest_client.users),
      tax_mapping |-> map_by_name(source_client.taxes, dest_client.taxes),
      payment_type_mapping |->
          map_by_name(source_client.payment_types, dest_client.payment_types) ]

(* the loop of clone_sales entered whatever the maps hold *)
SalesPrerequisite_ignored(maps) == TRUE

(* lines 995-1008: clone_sales goes on to its loop only with a register    *)
(* map and a user map that are not empty                                   *)
SalesPrerequisite(maps) == Truthy(maps.register_mapping) /\ Truthy(maps.user_mapping)

(* run_clone lines 1157-1185 and clone_sales up to the loop (lines 969-   *)
(* 1008): the stage is skipped when products were not cloned, when no sale *)
(* is fetched, and when no register or no user is matched                  *)
StartSales ==
    /\ rpc = "sales"
    /\ idx = 0
    /\ IF ~flags.clone_products_flag
       THEN StageSkipped("sales") /\ UNCHANGED stage_maps
       ELSE \E error \in BOOLEAN :
              LET maps == SaleMapsOf(get_results(data, SourceDomain, DestDomain, Filepath))
              IN  IF error \/ source_client.sales = <<>>
                  THEN StageSkipped("sales") /\ UNCHANGED stage_maps
                  ELSE /\ stage_maps' = maps
                       /\ IF ~SalesPrerequisite(maps)
                          THEN StageSkipped("sales")
                          ELSE idx' = 1 /\ rpc' = rpc
    /\ UNCHANGED <<flags, source_client, dest_client, dest_names, run_brand_mapping,
                   run_supplier_mapping, inventory_counts, trace, loggerVars, transformVars>>

MissingMappings == "Missing required mappings (register, user, or products)"

(* the rejected sale logged under the category classify_error gives *)
LogRejectedSale_classified(d, now, source_id, receipt_number) ==
    log_failure(d, now, "sales", source_id, None, MissingMappings,
                classify_error(None, Chars(<<"M", "i", "s", "s", "i", "n", "g">>)),
                None, None, receipt_number, None).data

(* lines 1036-1049: the log call for a sale the transformer rejected *)
LogRejectedSale(d, now, source_id, receipt_number) ==
    log_failure(d, now, "sales", source_id, None, MissingMappings, "not_found",
                None, None, receipt_number, None).data

(* lines 1015-1088: one pass of the loop of clone_sales *)
CloneSale ==
    /\ rpc = "sales"
    /\ idx >= 1
    /\ LET sale == source_client.sales[idx]
           source_id == GetOr(sale, "id", None)
           receipt_number == GetOr(sale, "receipt_number", None)
           transformed ==
               transform_sale_for_creation(sale, stage_maps.product_mapping,
                   stage_maps.customer_mapping, stage_maps.register_mapping,
                   stage_maps.user_mapping, stage_maps.tax_mapping,
                   stage_maps.payment_type_mapping)
       IN  IF transformed = None
           THEN /\ Logged(LogRejectedSale(data, Timestamp(clock), source_id, receipt_number), 1)
                /\ trace' = Append(trace, Event("sales", "log", source_id, None, "failed"))
                /\ UNCHANGED dest_client
           ELSE CreateAndLog("sales", source_id, transformed, receipt_number)
    /\ Advance("sales", Len(source_client.sales))
    /\ UNCHANGED <<flags, source_client, dest_names, run_brand_mapping, run_supplier_mapping,
                   stage_maps, inventory_counts, transformVars>>

(* run_clone lines 1192-1197 *)
FinishRun ==
    /\ rpc = "finish"
    /\ LET d1 == set_inventory_counts(data, inventory_counts.inventory_updated,
                                      inventory_counts.inventory_failed)
           d2 == complete(d1, Timestamp(clock), "completed")
       IN  /\ Logged(d2, 1)
           /\ result' = get_results(d2, SourceDomain, DestDomain, Filepath)
    /\ rpc' = "done"
    /\ UNCHANGED <<args, fpc, flags, source_client, dest_client, idx, dest_names,
                   run_brand_mapping, run_supplier_mapping, stage_maps, inventory_counts,
                   trace>>

NextRun ==
    \/ StartBrands \/ CloneBrand
    \/ StartSuppliers \/ CloneSupplier
    \/ StartProducts \/ CloneProduct
    \/ StartCustomers \/ CloneCustomer
    \/ StartSales \/ CloneSale
    \/ FinishRun

SpecRun == InitRun /\ [][NextRun]_vars
TypeOKRun == rpc \in {"brands", "suppliers", "products", "customers", "sales", "finish", "done"}

----------------------------------------------------------------------------
(* Properties of run_clone *)

(* the items of the destination whose name is name, case ignored *)
SameNameAtDest(client, kind, name) ==
    {j \in 1..Len(client[kind]) :
        lower(GetOr(client[kind][j], "name", Chars(<<>>)).c) = lower(name.c)}

(* the step is a pass of the loop of clone_brands or clone_suppliers *)
OwnedPass == rpc \in {"brands", "suppliers"} /\ idx >= 1

(* C17: clone_brands and clone_suppliers issue no create call for a source *)
(* item whose name is, case ignored, the name of an item the destination   *)
(* holds when the call would be made; the source item is mapped to that    *)
(* item instead, and the stage adds no second destination item of a name.  *)
C17_NoDuplicateCreate ==
    [][OwnedPass =>
          LET item == source_client[rpc][idx]
              existing == SameNameAtDest(dest_client, rpc, GetOr(item, "name", Chars(<<>>)))
              mapping_after == IF rpc = "brands" THEN run_brand_mapping'
                               ELSE run_supplier_mapping'
          IN  existing # {} =>
                /\ trace' = trace
                /\ dest_client' = dest_client
                /\ Has(mapping_after, Get(item, "id").s)
                /\ \E j \in existing :
                     Get(mapping_after, Get(item, "id").s) = GetOr(dest_client[rpc][j], "id", None)
      ]_vars

StageRank(stage) ==
    CASE stage = "brands" -> 1
      [] stage = "suppliers" -> 2
      [] stage = "products" -> 3
      [] stage = "customers" -> 4
      [] stage = "sales" -> 5
      [] OTHER -> 6

(* C19: the calls on the destination and the log entries follow the stage  *)
(* order brands, suppliers, products, customers, sales: no call or entry   *)
(* of a stage comes after a call or entry of a later stage, and none comes *)
(* once the run has moved past the stage.                                  *)
C19_StageOrder ==
    /\ \A i, j \in 1..Len(trace) :
         i < j => StageRank(trace[i].stage) <= StageRank(trace[j].stage)
    /\ \A i \in 1..Len(trace) : StageRank(trace[i].stage) <= StageRank(rpc)

(* the stages a create call was answered with a created record in *)
StagesCreated == {trace[i].stage : i \in {j \in 1..Len(trace) : trace[j].outcome = "created"}}

C19_Witness ==
    /\ rpc = "done"
    /\ StagesCreated = {"brands", "suppliers", "products", "customers", "sales"}
    /\ \E i \in 1..Len(trace) : trace[i].kind = "update"

(* C20: the sales stage attempts records only when the products stage and  *)
(* the customers stage have run in the same run; otherwise no sale is      *)
(* created and no sale entry is logged.                                    *)
C20_SalesNeedBothStages ==
    (\E i \in 1..Len(trace) : trace[i].stage = "sales") =>
        (flags.clone_products_flag /\ flags.clone_customers_flag)

----------------------------------------------------------------------------
(* Per-record failures of run_clone *)

Stages == {"brands", "suppliers", "products", "customers", "sales"}

(* the entity types of the log entries a stage writes *)
EntityTypes(stage) == IF stage = "products" THEN {"products", "inventory"} ELSE {stage}

(* the failure entries of the operation log for the record source_id of a  *)
(* stage                                                                   *)
FailureEntries(d, stage, source_id) ==
    LET operations == Get(d, "operations").l
    IN  {i \in 1..Len(operations) :
            /\ Get(operations[i], "status") = Str("failed")
            /\ Get(operations[i], "source_id") = source_id
            /\ Get(operations[i], "entity_type").s \in EntityTypes(stage)}

(* the calls and log calls made for the record source_id of a stage *)
StageEvents(stage, source_id) ==
    {i \in 1..Len(trace) : trace[i].stage = stage /\ trace[i].source_id = source_id}

(* the map a stage that owns one fills *)
OwnedMapping(stage) ==
    CASE stage = "brands" -> run_brand_mapping
      [] stage = "suppliers" -> run_supplier_mapping
      [] OTHER -> EmptyDict

(* the loop of the stage has passed over the record: a call or a log call  *)
(* was made for it, or it was mapped to a destination item of its name     *)
Processed(stage, source_id) ==
    \/ StageEvents(stage, source_id) # {}
    \/ In(source_id, OwnedMapping(stage))

(* the loop of the stage was entered *)
Attempted(stage) ==
    \/ \E i \in 1..Len(trace) : trace[i].stage = stage
    \/ Truthy(OwnedMapping(stage))

(* the number of records the loop of the stage has passed over *)
PassesDone(stage) ==
    IF rpc = stage
    THEN (IF idx >= 1 THEN idx - 1 ELSE 0)
    ELSE IF StageRank(stage) < StageRank(rpc) /\ Attempted(stage)
         THEN Len(source_client[stage])
         ELSE 0

(* the sale is rejected by the transformer under the maps of the stage *)
SaleRejected(sale) ==
    transform_sale_for_creation(sale, stage_maps.product_mapping,
        stage_maps.customer_mapping, stage_maps.register_mapping,
        stage_maps.user_mapping, stage_maps.tax_mapping,
        stage_maps.payment_type_mapping) = None

(* a write of the record to the destination was refused *)
WriteFailed(stage, source_id) ==
    \E i \in StageEvents(stage, source_id) :
        trace[i].kind \in {"create", "update"} /\ trace[i].outcome = "rejected"

(* the record was rejected by the transformer or its write failed *)
RecordFailed(stage, item) ==
    \/ WriteFailed(stage, GetOr(item, "id", None))
    \/ stage = "sales" /\ SaleRejected(item)

(* C21: in a stage whose loop is entered every source record is passed     *)
(* over, whatever happened to the records before it, and a record that the *)
(* transformer rejects or whose write the destination refuses has exactly  *)
(* one failure entry in the operation log; no record has two.              *)
C21_OneFailureEntry ==
    \A stage \in Stages :
      \A i \in 1..PassesDone(stage) :
        LET item == source_client[stage][i]
            source_id == GetOr(item, "id", None)
            entries == Cardinality(FailureEntries(data, stage, source_id))
        IN  /\ Processed(stage, source_id)
            /\ entries <= 1
            /\ RecordFailed(stage, item) => entries = 1

(* the run is over; the first product was refused and the second created,  *)
(* and a sale was rejected by the transformer                              *)
C21_Witness ==
    /\ rpc = "done"
    /\ WriteFailed("products", Str("prod-src-1"))
    /\ \E i \in StageEvents("products", Str("prod-src-2")) : trace[i].outcome = "created"
    /\ \E i \in 1..Len(source_client.sales) :
         /\ SaleRejected(source_client.sales[i])
         /\ Cardinality(FailureEntries(data, "sales",
                Get(source_client.sales[i], "id"))) = 1

(* the entries of the operation log *)
Operations(d) == Get(d, "operations").l

(* the create calls made for the record source_id of a stage *)
CreateCalls(stage, source_id) ==
    {i \in StageEvents(stage, source_id) : trace[i].kind = "create"}

(* the step is a pass of the loop of clone_sales over a sale the           *)
(* transformer rejects                                                     *)
RejectedSalePass ==
    /\ rpc = "sales"
    /\ idx >= 1
    /\ SaleRejected(source_client.sales[idx])

(* C22: the pass of clone_sales over a sale that transform_sale_for_       *)
(* creation rejects makes no call on the destination, appends exactly one  *)
(* entry to the operation log, a failure for that sale with error_type     *)
(* not_found and status_code null, and moves to the next sale (or ends the *)
(* stage after the last one).                                              *)
C22_RejectedSale ==
    [][RejectedSalePass =>
          LET sale == source_client.sales[idx]
              before == Operations(data)
              after == Operations(data')
          IN  /\ dest_client' = dest_client
              /\ \A i \in 1..Len(trace') :
                    ~ /\ trace'[i].stage = "sales"
                      /\ trace'[i].kind = "create"
                      /\ trace'[i].source_id = GetOr(sale, "id", None)
              /\ Len(after) = Len(before) + 1
              /\ SubSeq(after, 1, Len(before)) = before
              /\ Get(after[Len(after)], "status") = Str("failed")
              /\ Get(after[Len(after)], "entity_type") = Str("sales")
              /\ Get(after[Len(after)], "source_id") = GetOr(sale, "id", None)
              /\ Get(after[Len(after)], "error_type") = Str("not_found")
              /\ Get(after[Len(after)], "status_code") = None
              /\ IF idx < Len(source_client.sales)
                 THEN rpc' = "sales" /\ idx' = idx + 1
                 ELSE rpc' = "finish"
      ]_vars

(* the first sale was rejected and logged, and the second sale was then    *)
(* submitted                                                               *)
C22_Witness ==
    /\ SaleRejected(source_client.sales[1])
    /\ Cardinality(FailureEntries(data, "sales", Str("sale-src-1"))) = 1
    /\ CreateCalls("sales", Str("sale-src-1")) = {}
    /\ CreateCalls("sales", Str("sale-src-2")) # {}

(* clone_sales has fetched the sales and built its maps by name *)
SaleMapsBuilt ==
    \/ Truthy(stage_maps.register_mapping) \/ Truthy(stage_maps.user_mapping)
    \/ Truthy(stage_maps.tax_mapping) \/ Truthy(stage_maps.payment_type_mapping)

(* clone_sales has returned at its test of the register map or of the user *)
(* map (lines 995-1008)                                                    *)
SalesAbandoned ==
    /\ SaleMapsBuilt
    /\ ~Truthy(stage_maps.register_mapping) \/ ~Truthy(stage_maps.user_mapping)

(* clone_sales has entered its loop *)
SalesEntered == Truthy(stage_maps.register_mapping) /\ Truthy(stage_maps.user_mapping)

(* run_clone has returned: the inventory counts are set in the summary,    *)
(* the log is marked completed and written                                 *)
RunFinished ==
    /\ rpc = "done"
    /\ Get(Get(data, "metadata"), "status") = Str("completed")
    /\ Get(Get(data, "summary"), "inventory") =
           Rec([success |-> Int_(inventory_counts.inventory_updated),
                failed |-> Int_(inventory_counts.inventory_failed)])
    /\ file = Written(data)

(* C23: when the register map or the user map built by clone_sales is      *)
(* empty, no create call is made and no entry is logged for a sale, and    *)
(* the run goes on to its last step, which leaves the inventory counts set *)
(* and the log marked completed; when both maps are non-empty the stage    *)
(* passes over every fetched sale before it ends.                          *)
C23_EmptyMapSkipsStage ==
    /\ SalesAbandoned =>
         /\ \A i \in 1..Len(trace) : trace[i].stage # "sales"
         /\ \A i \in 1..Len(Operations(data)) :
              Get(Operations(data)[i], "entity_type") # Str("sales")
         /\ rpc \in {"finish", "done"}
    /\ (SalesEntered /\ rpc \in {"finish", "done"}) =>
         \A i \in 1..Len(source_client.sales) :
            Processed("sales", GetOr(source_client.sales[i], "id", None))
    /\ rpc = "done" => RunFinished

(* the run has ended after clone_sales found the register but no user of   *)
(* the source at the destination                                           *)
NoUserRun ==
    /\ RunFinished
    /\ Truthy(stage_maps.register_mapping)
    /\ ~Truthy(stage_maps.user_mapping)

(* the run has ended after clone_sales found users but no register of the  *)
(* source at the destination                                               *)
C23_Witness ==
    /\ RunFinished
    /\ SalesAbandoned
    /\ ~Truthy(stage_maps.register_mapping)
    /\ Truthy(stage_maps.user_mapping)
    /\ \E i \in 1..Len(trace) : trace[i].outcome = "created"

----------------------------------------------------------------------------
(* The identity maps of a run *)

(* every entry of the map a is an entry of the map b *)
Extends(a, b) == \A k \in DOMAIN a.d : k \in DOMAIN b.d /\ b.d[k] = a.d[k]

(* lines 1169-1180 of run_clone applied to the results the logger holds:   *)
(* the product map and the customer map as they stand                      *)
LoggedMapping(d, entity_type) ==
    results_mapping(Get(Get(d, "results"), entity_type).l, 1, EmptyDict)

MapNames ==
    {"outlet_mapping", "product_mapping", "customer_mapping", "register_mapping",
     "user_mapping", "tax_mapping", "payment_type_mapping"}

(* C24: no step of a run removes an entry from an identity map or changes  *)
(* the destination identifier of an entry: the brand map, the supplier     *)
(* map, the product and customer maps (as passed to clone_sales and as     *)
(* they stand in the results of the logger) and the maps matched by name   *)
(* only grow.                                                              *)
C24_MapsOnlyGrow ==
    [][/\ Extends(run_brand_mapping, run_brand_mapping')
       /\ Extends(run_supplier_mapping, run_supplier_mapping')
       /\ \A m \in MapNames : Extends(stage_maps[m], stage_maps'[m])
       /\ Extends(LoggedMapping(data, "products"), LoggedMapping(data', "products"))
       /\ Extends(LoggedMapping(data, "customers"), LoggedMapping(data', "customers"))
      ]_vars

(* the run has ended with two brands, a supplier, two products and a       *)
(* customer mapped, and the maps by name built                             *)
C24_Witness ==
    /\ rpc = "done"
    /\ Cardinality(DOMAIN run_brand_mapping.d) = 2
    /\ Cardinality(DOMAIN run_supplier_mapping.d) = 1
    /\ Cardinality(DOMAIN stage_maps.product_mapping.d) = 2
    /\ Cardinality(DOMAIN stage_maps.customer_mapping.d) = 1
    /\ stage_maps.product_mapping = LoggedMapping(data, "products")
    /\ Truthy(stage_maps.outlet_mapping)
    /\ Truthy(stage_maps.register_mapping)
    /\ Truthy(stage_maps.payment_type_mapping)

----------------------------------------------------------------------------
(* Null fields of the sale payload *)

(* no field of the record is null *)
NoNullField(record) == \A k \in DOMAIN record.d : record.d[k] # None

(* the records of the list stored under key, none when the key is absent *)
ItemsOf(record, key) ==
    LET items == GetOr(record, key, EmptyList).l
    IN  {items[i] : i \in 1..Len(items)}

(* C25: the payload transform_sale_for_creation returns holds no field     *)
(* whose value is null, and neither does any of its line items or          *)
(* payments, whichever optional fields the source sale lacks.              *)
C25_NoNullFields ==
    (SaleDone /\ result # None) =>
        /\ NoNullField(result)
        /\ \A item \in ItemsOf(result, "register_sale_products") : NoNullField(item)
        /\ \A payment \in ItemsOf(result, "register_sale_payments") : NoNullField(payment)

----------------------------------------------------------------------------
(* One pass of the loop of clone_customers whose create call is refused,   *)
(* on a logger just constructed                                            *)

(* the bodies a refused request is answered with: a JSON object, an empty  *)
(* JSON object, a text, an empty text                                      *)
RefusedBodies ==
    { Rec([error |-> Str("Validation failed")]), EmptyDict, Str("Bad Request"), Str("") }

InitSubmit ==
    /\ LoggerIdle
    /\ RunIdle
    /\ args \in {[customer |-> customer, response_body |-> body] :
                    customer \in Customers, body \in RefusedBodies}
    /\ result = None
    /\ fpc = "ready"

(* clone_customers lines 868-909 with create_customer returning None: the  *)
(* payload sent, the body received and the entry log_failure appends       *)
SubmitRefused ==
    /\ fpc = "ready"
    /\ LET transformed == transform_customer_for_creation(args.customer)
           d == log_failure(data, Timestamp(clock), "customers",
                    GetOr(args.customer, "id", None), Int_(400), "Bad Request",
                    classify_error(Int_(400), Chars(<<"B", "a", "d">>)),
                    transformed, args.response_body,
                    GetOr(args.customer, "email", None), None).data
       IN  /\ result' = [sent |-> transformed, received |-> args.response_body,
                         entry |-> Operations(d)[Len(Operations(d))]]
           /\ Logged(d, 1)
    /\ fpc' = "done"
    /\ UNCHANGED <<args, runVars>>

NextSubmit == SubmitRefused

SpecSubmit == InitSubmit /\ [][NextSubmit]_vars

(* C26: the failure entry logged for a record that was submitted holds the *)
(* request payload exactly as it was sent and the response body exactly as *)
(* it was received, whatever the two are.                                  *)
C26_PayloadAndResponseKept ==
    fpc = "done" =>
        /\ Has(result.entry, "request_payload")
        /\ Get(result.entry, "request_payload") = result.sent
        /\ Has(result.entry, "response_body")
        /\ Get(result.entry, "response_body") = result.received

(* the entry holds the payload and the body whenever neither is empty *)
NonEmptyKept ==
    (fpc = "done" /\ Truthy(result.sent) /\ Truthy(result.received)) =>
        /\ GetOr(result.entry, "request_payload", None) = result.sent
        /\ GetOr(result.entry, "response_body", None) = result.received

----------------------------------------------------------------------------
(* Log calls that raise *)

(* the step is a log_success or log_failure call that ends by raising *)
RaisingLogCall == LogCallStep /\ last'.outcome = "raised"

(* C29: a log_success or log_failure call for an entity type the logger    *)
(* has no summary for raises and leaves the logger as it was: the          *)
(* in-memory document (operations, summary, error_summary, results) and    *)
(* the log file are unchanged, and the file still equals the document.     *)
C29_RaisingCallChangesNothing ==
    [][RaisingLogCall =>
          /\ data' = data
          /\ file' = file
          /\ file'.state = "complete"
          /\ JsonLoad(file'.json) = data'
      ]_vars

(* every part of the document other than the operation list is unchanged   *)
(* by a call that raises, and so is the file                               *)
RaisingCallKeepsCounts ==
    [][RaisingLogCall =>
          /\ Get(data', "summary") = Get(data, "summary")
          /\ Get(data', "error_summary") = Get(data, "error_summary")
          /\ Get(data', "results") = Get(data, "results")
          /\ file' = file
      ]_vars

----------------------------------------------------------------------------
(* The identifiers of a submitted sale *)

(* the identifiers of the items of a collection of an account *)
IdsOf(client, kind) == {GetOr(client[kind][j], "id", None) : j \in 1..Len(client[kind])}

AccountKinds ==
    {"brands", "suppliers", "products", "customers", "sales", "outlets", "registers",
     "users", "taxes", "payment_types"}

(* every identifier of the source account *)
SourceIds == UNION {IdsOf(source_client, kind) : kind \in AccountKinds}

(* the sale payloads submitted so far *)
SubmittedSales ==
    {trace[i].payload : i \in {j \in 1..Len(trace) :
                                  trace[j].stage = "sales" /\ trace[j].kind = "create"}}

(* the field is absent from the record or holds an identifier of ids that  *)
(* is not an identifier of the source                                      *)
DestOnly(record, field, ids) ==
    Has(record, field) =>
        /\ Get(record, field) \in ids
        /\ Get(record, field) \notin SourceIds
        /\ Get(record, field) # None

(* C27: in every sale payload submitted to the destination, register_id    *)
(* and user_id are identifiers of destination items, customer_id when      *)
(* present is the identifier of a customer created in the run, each line   *)
(* item's product_id is the identifier of a product created in the run,    *)
(* tax_id and payment_type_id are identifiers of destination items, and    *)
(* none of these fields holds an identifier of the source account.         *)
C27_DestinationIdentifiers ==
    \A payload \in SubmittedSales :
        /\ Has(payload, "register_id") /\ DestOnly(payload, "register_id",
                                                   IdsOf(dest_client, "registers"))
        /\ Has(payload, "user_id") /\ DestOnly(payload, "user_id", IdsOf(dest_client, "users"))
        /\ DestOnly(payload, "customer_id", IdsOf(dest_client, "customers"))
        /\ \A item \in ItemsOf(payload, "register_sale_products") :
             /\ Has(item, "product_id")
             /\ DestOnly(item, "product_id", IdsOf(dest_client, "products"))
             /\ DestOnly(item, "tax_id", IdsOf(dest_client, "taxes"))
        /\ \A payment \in ItemsOf(payload, "register_sale_payments") :
             /\ Has(payment, "payment_type_id")
             /\ DestOnly(payment, "payment_type_id", IdsOf(dest_client, "payment_types"))

(* a sale was submitted with a customer, a line item with a tax, and a     *)
(* payment, and another without a customer                                 *)
C27_Witness ==
    /\ \E payload \in SubmittedSales :
         /\ Has(payload, "customer_id")
         /\ \E item \in ItemsOf(payload, "register_sale_products") : Has(item, "tax_id")
         /\ ItemsOf(payload, "register_sale_payments") # {}
    /\ \E payload \in SubmittedSales : ~Has(payload, "customer_id")

----------------------------------------------------------------------------
(* The destination identifier of the success entries *)

(* the success entries of the operation log for the entity types *)
SuccessEntries(d, entity_types) ==
    {Operations(d)[i] : i \in {j \in 1..Len(Operations(d)) :
        /\ Get(Operations(d)[j], "status") = Str("success")
        /\ Get(Operations(d)[j], "entity_type").s \in entity_types}}

(* C28: every success entry logged for a created brand, supplier, product, *)
(* customer or sale holds a destination identifier that is not null, and   *)
(* every product or customer success is an entry of the map the sales      *)
(* stage is given.                                                         *)
C28_SuccessHasIdentifier ==
    /\ \A entry \in SuccessEntries(data, Stages) : Truthy(Get(entry, "new_id"))
    /\ \A entity_type \in {"products", "customers"} :
         \A entry \in SuccessEntries(data, {entity_type}) :
            In(Get(entry, "source_id"), LoggedMapping(data, entity_type))

(* the success entries of brands and suppliers hold an identifier *)
OwnedSuccessHasIdentifier ==
    \A entry \in SuccessEntries(data, {"brands", "suppliers"}) : Truthy(Get(entry, "new_id"))

----------------------------------------------------------------------------
(* XSeriesClient._request_with_retry *)

(* the default of the parameter max_retries *)
max_retries == 3

(* the answers to one attempt: an HTTP response, with its status code and  *)
(* its body (json: the decoded JSON body, None when the content is empty   *)
(* or not JSON; text: the raw text), or a network error                    *)
Response(status_code, json, text) ==
    [network_error |-> FALSE, status_code |-> status_code, json |-> json, text |-> text]

NetworkError ==
    [network_error |-> TRUE, status_code |-> 0, json |-> None, text |-> ""]

Responses ==
    { Response(200, Rec([id |-> Str("dst-1")]), "{\"id\": \"dst-1\"}"),
      Response(201, Rec([id |-> Str("dst-1")]), "{\"id\": \"dst-1\"}"),
      Response(200, None, ""),
      Response(204, None, ""),
      Response(302, None, ""),
      Response(400, Rec([error |-> Str("Name is required")]), "{\"error\": \"Name is required\"}"),
      Response(422, None, "Unprocessable"),
      Response(401, None, ""),
      Response(403, None, ""),
      Response(404, None, ""),
      Response(429, None, ""),
      Response(500, None, ""),
      Response(503, None, ""),
      NetworkError }

(* what _handle_response does with a response: it returns a value or       *)
(* raises RateLimitError or APIError(status_code, message)                 *)
Returns(value) == [exception |-> "", status_code |-> 0, message |-> "", value |-> value]

Raises(exception, status_code, message) ==
    [exception |-> exception, status_code |-> status_code, message |-> message,
     value |-> None]

(* lines 101-126: the message of a client error whose body has no details  *)
(* and no fields                                                           *)
client_error_message(response) ==
    IF response.json = None THEN response.text
    ELSE IF Truthy(GetOr(response.json, "error", Str("")))
         THEN Get(response.json, "error").s
         ELSE response.text

(* lines 69-138 *)
handle_response(response) ==
    CASE response.status_code = 429 -> Raises("RateLimitError", 429, "")
      [] response.status_code = 401 -> Raises("APIError", 401, "Invalid or expired token")
      [] response.status_code = 403 ->
             Raises("APIError", 403, "Insufficient permissions - check token scopes")
      [] response.status_code = 404 -> Raises("APIError", 404, "Invalid domain: dest")
      [] response.status_code >= 500 ->
             Raises("APIError", response.status_code, "Server error - please try again")
      [] response.status_code >= 400 /\ response.status_code < 500
         /\ response.status_code \notin {401, 403, 404, 429} ->
             Raises("APIError", response.status_code, client_error_message(response))
      [] response.status_code \in {200, 201} ->
             IF response.text = "" THEN Returns(EmptyDict) ELSE Returns(response.json)
      [] OTHER -> Returns(None)

(* the messages last_error may hold from an earlier request *)
EarlierErrors == {None, Str("Name already exists")}

(* a call of _request_with_retry is entered: last_error is what an earlier *)
(* request left, no attempt is made yet                                    *)
InitRequest ==
    /\ LoggerIdle
    /\ RunIdle
    /\ args \in {[last_error |-> e] : e \in EarlierErrors}
    /\ result = [attempt |-> 0, last_error |-> args.last_error, assigned |-> FALSE,
                 returned |-> None, responses |-> <<>>]
    /\ fpc = "request"

(* the call returns value *)
Return(r, value) == /\ result' = [r EXCEPT !.returned = value]
                    /\ fpc' = "done"

(* the call returns None with last_error set to message *)
GiveUp(r, message) ==
    /\ result' = [r EXCEPT !.returned = None, !.last_error = Str(message),
                           !.assigned = TRUE]
    /\ fpc' = "done"

(* the loop goes on to its next attempt, or ends and line 230 returns None *)
NextAttempt(r) ==
    IF result.attempt < max_retries
    THEN result' = [r EXCEPT !.attempt = @ + 1] /\ fpc' = fpc
    ELSE Return(r, None)

(* lines 162-228: one pass of the loop `for attempt in range(max_retries   *)
(* + 1)`, the request answered with response                               *)
RequestAttempt ==
    /\ fpc = "request"
    /\ \E response \in Responses :
         LET r == [result EXCEPT !.responses = Append(@, response.status_code)]
             handled == handle_response(response)
         IN  CASE response.network_error ->
                      IF result.attempt < max_retries
                      THEN NextAttempt(r)
                      ELSE GiveUp(r, "Network error: connection failed")
               [] ~response.network_error /\ handled.exception = "" ->
                      Return(r, handled.value)
               [] ~response.network_error /\ handled.exception = "RateLimitError" ->
                      NextAttempt(r)
               [] ~response.network_error /\ handled.exception = "APIError" ->
                      IF 400 <= handled.status_code /\ handled.status_code < 500
                      THEN GiveUp(r, handled.message)
                      ELSE IF result.attempt < max_retries
                           THEN NextAttempt(r)
                           ELSE GiveUp(r, handled.message)
    /\ UNCHANGED <<args, loggerVars, runVars>>

NextRequest == RequestAttempt

SpecRequest == InitRequest /\ [][NextRequest]_vars

(* the call has ended *)
RequestDone == fpc = "done"

(* C30: whenever _request_with_retry returns None, last_error was assigned *)
(* during that call, so it describes the failure of that request and not   *)
(* one of an earlier request.                                              *)
C30_LastErrorSet ==
    (RequestDone /\ result.returned = None) =>
        /\ result.assigned
        /\ result.last_error # None

(* after a client error, a server error on every attempt or a network      *)
(* error on the last attempt, last_error was assigned during the call      *)
ErrorsSetLastError ==
    (RequestDone /\ result.returned = None
       /\ result.responses[Len(result.responses)] \in {0, 400, 401, 403, 404, 422, 500, 503})
      => result.assigned

====
